---- MODULE Spec2Model ----
(***************************************************************************)
(* A model of the multiplayer room subsystem of src/main.py: the global    *)
(* registry ROOMS and the handlers create_room, room_join_page, room_join, *)
(* room_submit and room_results that read and write it.                    *)
(*                                                                         *)
(* Every handler is a coroutine of one event loop.  The only suspension    *)
(* point of a room handler is `await request.form()` (line 174), which     *)
(* precedes every read of ROOMS, so the body of each handler is one atomic *)
(* step.  Spec runs the handlers one after the other with inputs chosen at *)
(* each step; SpecConc starts a batch of requests that are in flight       *)
(* together and serves them in every order; SpecSingle runs the handler    *)
(* single_player_results, which touches no room.                           *)
(***************************************************************************)
EXTENDS Integers, Sequences, FiniteSets, TLC

VARIABLES
    ROOMS,   \* line 19: room code -> room
    req,     \* the request the last handler was called with
    resp,    \* the response the last handler returned
    batch,   \* SpecConc: the requests in flight, each with its position
    base     \* SpecConc: ROOMS when the batch was started

vars == <<ROOMS, req, resp, batch, base>>

----------------------------------------------------------------------------
(* Python values *)

\* Optional values: None is the empty tuple, a present value v is <<v>>.
None == <<>>
Some(v) == <<v>>

\* The strings of the model hold the characters U+0000-00FF except U+0060.
\* str.strip() removes the leading and trailing characters c with c.isspace():
\* of these characters U+0009-000D, U+001C-001F, U+0020, U+0085 and U+00A0.
Whitespace ==
    {"\t", "\n", "", "\f", "\r",
     "", "", "", "", " ", "", " "}

RECURSIVE lstrip(_)
lstrip(s) ==
    IF Len(s) > 0 /\ SubSeq(s, 1, 1) \in Whitespace
    THEN lstrip(SubSeq(s, 2, Len(s)))
    ELSE s

RECURSIVE rstrip(_)
rstrip(s) ==
    IF Len(s) > 0 /\ SubSeq(s, Len(s), Len(s)) \in Whitespace
    THEN rstrip(SubSeq(s, 1, Len(s) - 1))
    ELSE s

strip(s) == rstrip(lstrip(s))

\* The characters of a string.
Chars(s) == {SubSeq(s, i, i) : i \in 1..Len(s)}

\* str.startswith(prefix)
startswith(s, prefix) ==
    Len(s) >= Len(prefix) /\ SubSeq(s, 1, Len(prefix)) = prefix

\* str.split(sep): the parts of s between the occurrences of sep, left to right.
RECURSIVE split(_, _)
split(s, sep) ==
    LET n == Len(sep)
        hits == {i \in 1..(Len(s) - n + 1) : SubSeq(s, i, i + n - 1) = sep}
    IN  IF hits = {}
        THEN <<s>>
        ELSE LET i == CHOOSE j \in hits : \A k \in hits : j <= k
             IN  <<SubSeq(s, 1, i - 1)>> \o split(SubSeq(s, i + n, Len(s)), sep)

\* html.unescape, lines 33-35.  The strings of the model hold the characters
\* U+0000-00FF except U+0060; a reference to another character has no
\* value here.
NoSuchString == CHOOSE c \in {} : TRUE

\* html.entities.html5: the named references whose characters the strings
\* hold, each with its characters.
html5Latin1 ==
    {<<"AElig", "Æ">>, <<"AElig;", "Æ">>, <<"AMP", "&">>, <<"AMP;", "&">>,
     <<"Aacute", "Á">>, <<"Aacute;", "Á">>, <<"Acirc", "Â">>,
     <<"Acirc;", "Â">>, <<"Agrave", "À">>, <<"Agrave;", "À">>,
     <<"Aring", "Å">>, <<"Aring;", "Å">>, <<"Atilde", "Ã">>,
     <<"Atilde;", "Ã">>, <<"Auml", "Ä">>, <<"Auml;", "Ä">>, <<"COPY", "©">>,
     <<"COPY;", "©">>, <<"Ccedil", "Ç">>, <<"Ccedil;", "Ç">>,
     <<"Cedilla;", "¸">>, <<"CenterDot;", "·">>, <<"DiacriticalAcute;", "´">>,
     <<"Dot;", "¨">>, <<"DoubleDot;", "¨">>, <<"ETH", "Ð">>, <<"ETH;", "Ð">>,
     <<"Eacute", "É">>, <<"Eacute;", "É">>, <<"Ecirc", "Ê">>,
     <<"Ecirc;", "Ê">>, <<"Egrave", "È">>, <<"Egrave;", "È">>,
     <<"Euml", "Ë">>, <<"Euml;", "Ë">>, <<"GT", ">">>, <<"GT;", ">">>,
     <<"Hat;", "^">>, <<"Iacute", "Í">>, <<"Iacute;", "Í">>, <<"Icirc", "Î">>,
     <<"Icirc;", "Î">>, <<"Igrave", "Ì">>, <<"Igrave;", "Ì">>,
     <<"Iuml", "Ï">>, <<"Iuml;", "Ï">>, <<"LT", "<">>, <<"LT;", "<">>,
     <<"NewLine;", "\n">>, <<"NonBreakingSpace;", " ">>, <<"Ntilde", "Ñ">>,
     <<"Ntilde;", "Ñ">>, <<"Oacute", "Ó">>, <<"Oacute;", "Ó">>,
     <<"Ocirc", "Ô">>, <<"Ocirc;", "Ô">>, <<"Ograve", "Ò">>,
     <<"Ograve;", "Ò">>, <<"Oslash", "Ø">>, <<"Oslash;", "Ø">>,
     <<"Otilde", "Õ">>, <<"Otilde;", "Õ">>, <<"Ouml", "Ö">>, <<"Ouml;", "Ö">>,
     <<"PlusMinus;", "±">>, <<"QUOT", "\"">>, <<"QUOT;", "\"">>,
     <<"REG", "®">>, <<"REG;", "®">>, <<"THORN", "Þ">>, <<"THORN;", "Þ">>,
     <<"Tab;", "\t">>, <<"Uacute", "Ú">>, <<"Uacute;", "Ú">>,
     <<"Ucirc", "Û">>, <<"Ucirc;", "Û">>, <<"Ugrave", "Ù">>,
     <<"Ugrave;", "Ù">>, <<"UnderBar;", "_">>, <<"Uuml", "Ü">>,
     <<"Uuml;", "Ü">>, <<"VerticalLine;", "|">>, <<"Yacute", "Ý">>,
     <<"Yacute;", "Ý">>, <<"aacute", "á">>, <<"aacute;", "á">>,
     <<"acirc", "â">>, <<"acirc;", "â">>, <<"acute", "´">>, <<"acute;", "´">>,
     <<"aelig", "æ">>, <<"aelig;", "æ">>, <<"agrave", "à">>,
     <<"agrave;", "à">>, <<"amp", "&">>, <<"amp;", "&">>, <<"angst;", "Å">>,
     <<"apos;", "'">>, <<"aring", "å">>, <<"aring;", "å">>, <<"ast;", "*">>,
     <<"atilde", "ã">>, <<"atilde;", "ã">>, <<"auml", "ä">>, <<"auml;", "ä">>,
     <<"brvbar", "¦">>, <<"brvbar;", "¦">>, <<"bsol;", "\\">>,
     <<"ccedil", "ç">>, <<"ccedil;", "ç">>, <<"cedil", "¸">>,
     <<"cedil;", "¸">>, <<"cent", "¢">>, <<"cent;", "¢">>,
     <<"centerdot;", "·">>, <<"circledR;", "®">>, <<"colon;", ":">>,
     <<"comma;", ",">>, <<"commat;", "@">>, <<"copy", "©">>, <<"copy;", "©">>,
     <<"curren", "¤">>, <<"curren;", "¤">>, <<"deg", "°">>, <<"deg;", "°">>,
     <<"die;", "¨">>, <<"div;", "÷">>, <<"divide", "÷">>, <<"divide;", "÷">>,
     <<"dollar;", "$">>, <<"eacute", "é">>, <<"eacute;", "é">>,
     <<"ecirc", "ê">>, <<"ecirc;", "ê">>, <<"egrave", "è">>,
     <<"egrave;", "è">>, <<"equals;", "=">>, <<"eth", "ð">>, <<"eth;", "ð">>,
     <<"euml", "ë">>, <<"euml;", "ë">>, <<"excl;", "!">>, <<"fjlig;", "fj">>,
     <<"frac12", "½">>, <<"frac12;", "½">>, <<"frac14", "¼">>,
     <<"frac14;", "¼">>, <<"frac34", "¾">>, <<"frac34;", "¾">>, <<"gt", ">">>,
     <<"gt;", ">">>, <<"half;", "½">>, <<"iacute", "í">>, <<"iacute;", "í">>,
     <<"icirc", "î">>, <<"icirc;", "î">>, <<"iexcl", "¡">>, <<"iexcl;", "¡">>,
     <<"igrave", "ì">>, <<"igrave;", "ì">>, <<"iquest", "¿">>,
     <<"iquest;", "¿">>, <<"iuml", "ï">>, <<"iuml;", "ï">>, <<"laquo", "«">>,
     <<"laquo;", "«">>, <<"lbrace;", "{">>, <<"lbrack;", "[">>,
     <<"lcub;", "{">>, <<"lowbar;", "_">>, <<"lpar;", "(">>, <<"lsqb;", "[">>,
     <<"lt", "<">>, <<"lt;", "<">>, <<"macr", "¯">>, <<"macr;", "¯">>,
     <<"micro", "µ">>, <<"micro;", "µ">>, <<"midast;", "*">>,
     <<"middot", "·">>, <<"middot;", "·">>, <<"nbsp", " ">>, <<"nbsp;", " ">>,
     <<"not", "¬">>, <<"not;", "¬">>, <<"ntilde", "ñ">>, <<"ntilde;", "ñ">>,
     <<"num;", "#">>, <<"oacute", "ó">>, <<"oacute;", "ó">>, <<"ocirc", "ô">>,
     <<"ocirc;", "ô">>, <<"ograve", "ò">>, <<"ograve;", "ò">>,
     <<"ordf", "ª">>, <<"ordf;", "ª">>, <<"ordm", "º">>, <<"ordm;", "º">>,
     <<"oslash", "ø">>, <<"oslash;", "ø">>, <<"otilde", "õ">>,
     <<"otilde;", "õ">>, <<"ouml", "ö">>, <<"ouml;", "ö">>, <<"para", "¶">>,
     <<"para;", "¶">>, <<"percnt;", "%">>, <<"period;", ".">>,
     <<"plus;", "+">>, <<"plusmn", "±">>, <<"plusmn;", "±">>, <<"pm;", "±">>,
     <<"pound", "£">>, <<"pound;", "£">>, <<"quest;", "?">>, <<"quot", "\"">>,
     <<"quot;", "\"">>, <<"raquo", "»">>, <<"raquo;", "»">>,
     <<"rbrace;", "}">>, <<"rbrack;", "]">>, <<"rcub;", "}">>, <<"reg", "®">>,
     <<"reg;", "®">>, <<"rpar;", ")">>, <<"rsqb;", "]">>, <<"sect", "§">>,
     <<"sect;", "§">>, <<"semi;", ";">>, <<"shy", "­">>, <<"shy;", "­">>,
     <<"sol;", "/">>, <<"strns;", "¯">>, <<"sup1", "¹">>, <<"sup1;", "¹">>,
     <<"sup2", "²">>, <<"sup2;", "²">>, <<"sup3", "³">>, <<"sup3;", "³">>,
     <<"szlig", "ß">>, <<"szlig;", "ß">>, <<"thorn", "þ">>, <<"thorn;", "þ">>,
     <<"times", "×">>, <<"times;", "×">>, <<"uacute", "ú">>,
     <<"uacute;", "ú">>, <<"ucirc", "û">>, <<"ucirc;", "û">>,
     <<"ugrave", "ù">>, <<"ugrave;", "ù">>, <<"uml", "¨">>, <<"uml;", "¨">>,
     <<"uuml", "ü">>, <<"uuml;", "ü">>, <<"verbar;", "|">>, <<"vert;", "|">>,
     <<"yacute", "ý">>, <<"yacute;", "ý">>, <<"yen", "¥">>, <<"yen;", "¥">>,
     <<"yuml", "ÿ">>, <<"yuml;", "ÿ">>}

\* The names of the other entries of html.entities.html5.
html5Other ==
    {"Abreve;", "Acy;", "Afr;", "Alpha;", "Amacr;", "And;", "Aogon;", "Aopf;",
     "ApplyFunction;", "Ascr;", "Assign;", "Backslash;", "Barv;", "Barwed;",
     "Bcy;", "Because;", "Bernoullis;", "Beta;", "Bfr;", "Bopf;", "Breve;",
     "Bscr;", "Bumpeq;", "CHcy;", "Cacute;", "Cap;", "CapitalDifferentialD;",
     "Cayleys;", "Ccaron;", "Ccirc;", "Cconint;", "Cdot;", "Cfr;", "Chi;",
     "CircleDot;", "CircleMinus;", "CirclePlus;", "CircleTimes;",
     "ClockwiseContourIntegral;", "CloseCurlyDoubleQuote;",
     "CloseCurlyQuote;", "Colon;", "Colone;", "Congruent;", "Conint;",
     "ContourIntegral;", "Copf;", "Coproduct;",
     "CounterClockwiseContourIntegral;", "Cross;", "Cscr;", "Cup;", "CupCap;",
     "DD;", "DDotrahd;", "DJcy;", "DScy;", "DZcy;", "Dagger;", "Darr;",
     "Dashv;", "Dcaron;", "Dcy;", "Del;", "Delta;", "Dfr;", "DiacriticalDot;",
     "DiacriticalDoubleAcute;", "DiacriticalGrave;", "DiacriticalTilde;",
     "Diamond;", "DifferentialD;", "Dopf;", "DotDot;", "DotEqual;",
     "DoubleContourIntegral;", "DoubleDownArrow;", "DoubleLeftArrow;",
     "DoubleLeftRightArrow;", "DoubleLeftTee;", "DoubleLongLeftArrow;",
     "DoubleLongLeftRightArrow;", "DoubleLongRightArrow;",
     "DoubleRightArrow;", "DoubleRightTee;", "DoubleUpArrow;",
     "DoubleUpDownArrow;", "DoubleVerticalBar;", "DownArrow;",
     "DownArrowBar;", "DownArrowUpArrow;", "DownBreve;",
     "DownLeftRightVector;", "DownLeftTeeVector;", "DownLeftVector;",
     "DownLeftVectorBar;", "DownRightTeeVector;", "DownRightVector;",
     "DownRightVectorBar;", "DownTee;", "DownTeeArrow;", "Downarrow;",
     "Dscr;", "Dstrok;", "ENG;", "Ecaron;", "Ecy;", "Edot;", "Efr;",
     "Element;", "Emacr;", "EmptySmallSquare;", "EmptyVerySmallSquare;",
     "Eogon;", "Eopf;", "Epsilon;", "Equal;", "EqualTilde;", "Equilibrium;",
     "Escr;", "Esim;", "Eta;", "Exists;", "ExponentialE;", "Fcy;", "Ffr;",
     "FilledSmallSquare;", "FilledVerySmallSquare;", "Fopf;", "ForAll;",
     "Fouriertrf;", "Fscr;", "GJcy;", "Gamma;", "Gammad;", "Gbreve;",
     "Gcedil;", "Gcirc;", "Gcy;", "Gdot;", "Gfr;", "Gg;", "Gopf;",
     "GreaterEqual;", "GreaterEqualLess;", "GreaterFullEqual;",
     "GreaterGreater;", "GreaterLess;", "GreaterSlantEqual;", "GreaterTilde;",
     "Gscr;", "Gt;", "HARDcy;", "Hacek;", "Hcirc;", "Hfr;", "HilbertSpace;",
     "Hopf;", "HorizontalLine;", "Hscr;", "Hstrok;", "HumpDownHump;",
     "HumpEqual;", "IEcy;", "IJlig;", "IOcy;", "Icy;", "Idot;", "Ifr;", "Im;",
     "Imacr;", "ImaginaryI;", "Implies;", "Int;", "Integral;",
     "Intersection;", "InvisibleComma;", "InvisibleTimes;", "Iogon;", "Iopf;",
     "Iota;", "Iscr;", "Itilde;", "Iukcy;", "Jcirc;", "Jcy;", "Jfr;", "Jopf;",
     "Jscr;", "Jsercy;", "Jukcy;", "KHcy;", "KJcy;", "Kappa;", "Kcedil;",
     "Kcy;", "Kfr;", "Kopf;", "Kscr;", "LJcy;", "Lacute;", "Lambda;", "Lang;",
     "Laplacetrf;", "Larr;", "Lcaron;", "Lcedil;", "Lcy;",
     "LeftAngleBracket;", "LeftArrow;", "LeftArrowBar;",
     "LeftArrowRightArrow;", "LeftCeiling;", "LeftDoubleBracket;",
     "LeftDownTeeVector;", "LeftDownVector;", "LeftDownVectorBar;",
     "LeftFloor;", "LeftRightArrow;", "LeftRightVector;", "LeftTee;",
     "LeftTeeArrow;", "LeftTeeVector;", "LeftTriangle;", "LeftTriangleBar;",
     "LeftTriangleEqual;", "LeftUpDownVector;", "LeftUpTeeVector;",
     "LeftUpVector;", "LeftUpVectorBar;", "LeftVector;", "LeftVectorBar;",
     "Leftarrow;", "Leftrightarrow;", "LessEqualGreater;", "LessFullEqual;",
     "LessGreater;", "LessLess;", "LessSlantEqual;", "LessTilde;", "Lfr;",
     "Ll;", "Lleftarrow;", "Lmidot;", "LongLeftArrow;", "LongLeftRightArrow;",
     "LongRightArrow;", "Longleftarrow;", "Longleftrightarrow;",
     "Longrightarrow;", "Lopf;", "LowerLeftArrow;", "LowerRightArrow;",
     "Lscr;", "Lsh;", "Lstrok;", "Lt;", "Map;", "Mcy;", "MediumSpace;",
     "Mellintrf;", "Mfr;", "MinusPlus;", "Mopf;", "Mscr;", "Mu;", "NJcy;",
     "Nacute;", "Ncaron;", "Ncedil;", "Ncy;", "NegativeMediumSpace;",
     "NegativeThickSpace;", "NegativeThinSpace;", "NegativeVeryThinSpace;",
     "NestedGreaterGreater;", "NestedLessLess;", "Nfr;", "NoBreak;", "Nopf;",
     "Not;", "NotCongruent;", "NotCupCap;", "NotDoubleVerticalBar;",
     "NotElement;", "NotEqual;", "NotEqualTilde;", "NotExists;",
     "NotGreater;", "NotGreaterEqual;", "NotGreaterFullEqual;",
     "NotGreaterGreater;", "NotGreaterLess;", "NotGreaterSlantEqual;",
     "NotGreaterTilde;", "NotHumpDownHump;", "NotHumpEqual;",
     "NotLeftTriangle;", "NotLeftTriangleBar;", "NotLeftTriangleEqual;",
     "NotLess;", "NotLessEqual;", "NotLessGreater;", "NotLessLess;",
     "NotLessSlantEqual;", "NotLessTilde;", "NotNestedGreaterGreater;",
     "NotNestedLessLess;", "NotPrecedes;", "NotPrecedesEqual;",
     "NotPrecedesSlantEqual;", "NotReverseElement;", "NotRightTriangle;",
     "NotRightTriangleBar;", "NotRightTriangleEqual;", "NotSquareSubset;",
     "NotSquareSubsetEqual;", "NotSquareSuperset;", "NotSquareSupersetEqual;",
     "NotSubset;", "NotSubsetEqual;", "NotSucceeds;", "NotSucceedsEqual;",
     "NotSucceedsSlantEqual;", "NotSucceedsTilde;", "NotSuperset;",
     "NotSupersetEqual;", "NotTilde;", "NotTildeEqual;", "NotTildeFullEqual;",
     "NotTildeTilde;", "NotVerticalBar;", "Nscr;", "Nu;", "OElig;", "Ocy;",
     "Odblac;", "Ofr;", "Omacr;", "Omega;", "Omicron;", "Oopf;",
     "OpenCurlyDoubleQuote;", "OpenCurlyQuote;", "Or;", "Oscr;", "Otimes;",
     "OverBar;", "OverBrace;", "OverBracket;", "OverParenthesis;",
     "PartialD;", "Pcy;", "Pfr;", "Phi;", "Pi;", "Poincareplane;", "Popf;",
     "Pr;", "Precedes;", "PrecedesEqual;", "PrecedesSlantEqual;",
     "PrecedesTilde;", "Prime;", "Product;", "Proportion;", "Proportional;",
     "Pscr;", "Psi;", "Qfr;", "Qopf;", "Qscr;", "RBarr;", "Racute;", "Rang;",
     "Rarr;", "Rarrtl;", "Rcaron;", "Rcedil;", "Rcy;", "Re;",
     "ReverseElement;", "ReverseEquilibrium;", "ReverseUpEquilibrium;",
     "Rfr;", "Rho;", "RightAngleBracket;", "RightArrow;", "RightArrowBar;",
     "RightArrowLeftArrow;", "RightCeiling;", "RightDoubleBracket;",
     "RightDownTeeVector;", "RightDownVector;", "RightDownVectorBar;",
     "RightFloor;", "RightTee;", "RightTeeArrow;", "RightTeeVector;",
     "RightTriangle;", "RightTriangleBar;", "RightTriangleEqual;",
     "RightUpDownVector;", "RightUpTeeVector;", "RightUpVector;",
     "RightUpVectorBar;", "RightVector;", "RightVectorBar;", "Rightarrow;",
     "Ropf;", "RoundImplies;", "Rrightarrow;", "Rscr;", "Rsh;",
     "RuleDelayed;", "SHCHcy;", "SHcy;", "SOFTcy;", "Sacute;", "Sc;",
     "Scaron;", "Scedil;", "Scirc;", "Scy;", "Sfr;", "ShortDownArrow;",
     "ShortLeftArrow;", "ShortRightArrow;", "ShortUpArrow;", "Sigma;",
     "SmallCircle;", "Sopf;", "Sqrt;", "Square;", "SquareIntersection;",
     "SquareSubset;", "SquareSubsetEqual;", "SquareSuperset;",
     "SquareSupersetEqual;", "SquareUnion;", "Sscr;", "Star;", "Sub;",
     "Subset;", "SubsetEqual;", "Succeeds;", "SucceedsEqual;",
     "SucceedsSlantEqual;", "SucceedsTilde;", "SuchThat;", "Sum;", "Sup;",
     "Superset;", "SupersetEqual;", "Supset;", "TRADE;", "TSHcy;", "TScy;",
     "Tau;", "Tcaron;", "Tcedil;", "Tcy;", "Tfr;", "Therefore;", "Theta;",
     "ThickSpace;", "ThinSpace;", "Tilde;", "TildeEqual;", "TildeFullEqual;",
     "TildeTilde;", "Topf;", "TripleDot;", "Tscr;", "Tstrok;", "Uarr;",
     "Uarrocir;", "Ubrcy;", "Ubreve;", "Ucy;", "Udblac;", "Ufr;", "Umacr;",
     "UnderBrace;", "UnderBracket;", "UnderParenthesis;", "Union;",
     "UnionPlus;", "Uogon;", "Uopf;", "UpArrow;", "UpArrowBar;",
     "UpArrowDownArrow;", "UpDownArrow;", "UpEquilibrium;", "UpTee;",
     "UpTeeArrow;", "Uparrow;", "Updownarrow;", "UpperLeftArrow;",
     "UpperRightArrow;", "Upsi;", "Upsilon;", "Uring;", "Uscr;", "Utilde;",
     "VDash;", "Vbar;", "Vcy;", "Vdash;", "Vdashl;", "Vee;", "Verbar;",
     "Vert;", "VerticalBar;", "VerticalSeparator;", "VerticalTilde;",
     "VeryThinSpace;", "Vfr;", "Vopf;", "Vscr;", "Vvdash;", "Wcirc;",
     "Wedge;", "Wfr;", "Wopf;", "Wscr;", "Xfr;", "Xi;", "Xopf;", "Xscr;",
     "YAcy;", "YIcy;", "YUcy;", "Ycirc;", "Ycy;", "Yfr;", "Yopf;", "Yscr;",
     "Yuml;", "ZHcy;", "Zacute;", "Zcaron;", "Zcy;", "Zdot;",
     "ZeroWidthSpace;", "Zeta;", "Zfr;", "Zopf;", "Zscr;", "abreve;", "ac;",
     "acE;", "acd;", "acy;", "af;", "afr;", "alefsym;", "aleph;", "alpha;",
     "amacr;", "amalg;", "and;", "andand;", "andd;", "andslope;", "andv;",
     "ang;", "ange;", "angle;", "angmsd;", "angmsdaa;", "angmsdab;",
     "angmsdac;", "angmsdad;", "angmsdae;", "angmsdaf;", "angmsdag;",
     "angmsdah;", "angrt;", "angrtvb;", "angrtvbd;", "angsph;", "angzarr;",
     "aogon;", "aopf;", "ap;", "apE;", "apacir;", "ape;", "apid;", "approx;",
     "approxeq;", "ascr;", "asymp;", "asympeq;", "awconint;", "awint;",
     "bNot;", "backcong;", "backepsilon;", "backprime;", "backsim;",
     "backsimeq;", "barvee;", "barwed;", "barwedge;", "bbrk;", "bbrktbrk;",
     "bcong;", "bcy;", "bdquo;", "becaus;", "because;", "bemptyv;", "bepsi;",
     "bernou;", "beta;", "beth;", "between;", "bfr;", "bigcap;", "bigcirc;",
     "bigcup;", "bigodot;", "bigoplus;", "bigotimes;", "bigsqcup;",
     "bigstar;", "bigtriangledown;", "bigtriangleup;", "biguplus;", "bigvee;",
     "bigwedge;", "bkarow;", "blacklozenge;", "blacksquare;",
     "blacktriangle;", "blacktriangledown;", "blacktriangleleft;",
     "blacktriangleright;", "blank;", "blk12;", "blk14;", "blk34;", "block;",
     "bne;", "bnequiv;", "bnot;", "bopf;", "bot;", "bottom;", "bowtie;",
     "boxDL;", "boxDR;", "boxDl;", "boxDr;", "boxH;", "boxHD;", "boxHU;",
     "boxHd;", "boxHu;", "boxUL;", "boxUR;", "boxUl;", "boxUr;", "boxV;",
     "boxVH;", "boxVL;", "boxVR;", "boxVh;", "boxVl;", "boxVr;", "boxbox;",
     "boxdL;", "boxdR;", "boxdl;", "boxdr;", "boxh;", "boxhD;", "boxhU;",
     "boxhd;", "boxhu;", "boxminus;", "boxplus;", "boxtimes;", "boxuL;",
     "boxuR;", "boxul;", "boxur;", "boxv;", "boxvH;", "boxvL;", "boxvR;",
     "boxvh;", "boxvl;", "boxvr;", "bprime;", "breve;", "bscr;", "bsemi;",
     "bsim;", "bsime;", "bsolb;", "bsolhsub;", "bull;", "bullet;", "bump;",
     "bumpE;", "bumpe;", "bumpeq;", "cacute;", "cap;", "capand;", "capbrcup;",
     "capcap;", "capcup;", "capdot;", "caps;", "caret;", "caron;", "ccaps;",
     "ccaron;", "ccirc;", "ccups;", "ccupssm;", "cdot;", "cemptyv;", "cfr;",
     "chcy;", "check;", "checkmark;", "chi;", "cir;", "cirE;", "circ;",
     "circeq;", "circlearrowleft;", "circlearrowright;", "circledS;",
     "circledast;", "circledcirc;", "circleddash;", "cire;", "cirfnint;",
     "cirmid;", "cirscir;", "clubs;", "clubsuit;", "colone;", "coloneq;",
     "comp;", "compfn;", "complement;", "complexes;", "cong;", "congdot;",
     "conint;", "copf;", "coprod;", "copysr;", "crarr;", "cross;", "cscr;",
     "csub;", "csube;", "csup;", "csupe;", "ctdot;", "cudarrl;", "cudarrr;",
     "cuepr;", "cuesc;", "cularr;", "cularrp;", "cup;", "cupbrcap;",
     "cupcap;", "cupcup;", "cupdot;", "cupor;", "cups;", "curarr;",
     "curarrm;", "curlyeqprec;", "curlyeqsucc;", "curlyvee;", "curlywedge;",
     "curvearrowleft;", "curvearrowright;", "cuvee;", "cuwed;", "cwconint;",
     "cwint;", "cylcty;", "dArr;", "dHar;", "dagger;", "daleth;", "darr;",
     "dash;", "dashv;", "dbkarow;", "dblac;", "dcaron;", "dcy;", "dd;",
     "ddagger;", "ddarr;", "ddotseq;", "delta;", "demptyv;", "dfisht;",
     "dfr;", "dharl;", "dharr;", "diam;", "diamond;", "diamondsuit;",
     "diams;", "digamma;", "disin;", "divideontimes;", "divonx;", "djcy;",
     "dlcorn;", "dlcrop;", "dopf;", "dot;", "doteq;", "doteqdot;",
     "dotminus;", "dotplus;", "dotsquare;", "doublebarwedge;", "downarrow;",
     "downdownarrows;", "downharpoonleft;", "downharpoonright;", "drbkarow;",
     "drcorn;", "drcrop;", "dscr;", "dscy;", "dsol;", "dstrok;", "dtdot;",
     "dtri;", "dtrif;", "duarr;", "duhar;", "dwangle;", "dzcy;", "dzigrarr;",
     "eDDot;", "eDot;", "easter;", "ecaron;", "ecir;", "ecolon;", "ecy;",
     "edot;", "ee;", "efDot;", "efr;", "eg;", "egs;", "egsdot;", "el;",
     "elinters;", "ell;", "els;", "elsdot;", "emacr;", "empty;", "emptyset;",
     "emptyv;", "emsp13;", "emsp14;", "emsp;", "eng;", "ensp;", "eogon;",
     "eopf;", "epar;", "eparsl;", "eplus;", "epsi;", "epsilon;", "epsiv;",
     "eqcirc;", "eqcolon;", "eqsim;", "eqslantgtr;", "eqslantless;",
     "equest;", "equiv;", "equivDD;", "eqvparsl;", "erDot;", "erarr;",
     "escr;", "esdot;", "esim;", "eta;", "euro;", "exist;", "expectation;",
     "exponentiale;", "fallingdotseq;", "fcy;", "female;", "ffilig;",
     "fflig;", "ffllig;", "ffr;", "filig;", "flat;", "fllig;", "fltns;",
     "fnof;", "fopf;", "forall;", "fork;", "forkv;", "fpartint;", "frac13;",
     "frac15;", "frac16;", "frac18;", "frac23;", "frac25;", "frac35;",
     "frac38;", "frac45;", "frac56;", "frac58;", "frac78;", "frasl;",
     "frown;", "fscr;", "gE;", "gEl;", "gacute;", "gamma;", "gammad;", "gap;",
     "gbreve;", "gcirc;", "gcy;", "gdot;", "ge;", "gel;", "geq;", "geqq;",
     "geqslant;", "ges;", "gescc;", "gesdot;", "gesdoto;", "gesdotol;",
     "gesl;", "gesles;", "gfr;", "gg;", "ggg;", "gimel;", "gjcy;", "gl;",
     "glE;", "gla;", "glj;", "gnE;", "gnap;", "gnapprox;", "gne;", "gneq;",
     "gneqq;", "gnsim;", "gopf;", "grave;", "gscr;", "gsim;", "gsime;",
     "gsiml;", "gtcc;", "gtcir;", "gtdot;", "gtlPar;", "gtquest;",
     "gtrapprox;", "gtrarr;", "gtrdot;", "gtreqless;", "gtreqqless;",
     "gtrless;", "gtrsim;", "gvertneqq;", "gvnE;", "hArr;", "hairsp;",
     "hamilt;", "hardcy;", "harr;", "harrcir;", "harrw;", "hbar;", "hcirc;",
     "hearts;", "heartsuit;", "hellip;", "hercon;", "hfr;", "hksearow;",
     "hkswarow;", "hoarr;", "homtht;", "hookleftarrow;", "hookrightarrow;",
     "hopf;", "horbar;", "hscr;", "hslash;", "hstrok;", "hybull;", "hyphen;",
     "ic;", "icy;", "iecy;", "iff;", "ifr;", "ii;", "iiiint;", "iiint;",
     "iinfin;", "iiota;", "ijlig;", "imacr;", "image;", "imagline;",
     "imagpart;", "imath;", "imof;", "imped;", "in;", "incare;", "infin;",
     "infintie;", "inodot;", "int;", "intcal;", "integers;", "intercal;",
     "intlarhk;", "intprod;", "iocy;", "iogon;", "iopf;", "iota;", "iprod;",
     "iscr;", "isin;", "isinE;", "isindot;", "isins;", "isinsv;", "isinv;",
     "it;", "itilde;", "iukcy;", "jcirc;", "jcy;", "jfr;", "jmath;", "jopf;",
     "jscr;", "jsercy;", "jukcy;", "kappa;", "kappav;", "kcedil;", "kcy;",
     "kfr;", "kgreen;", "khcy;", "kjcy;", "kopf;", "kscr;", "lAarr;", "lArr;",
     "lAtail;", "lBarr;", "lE;", "lEg;", "lHar;", "lacute;", "laemptyv;",
     "lagran;", "lambda;", "lang;", "langd;", "langle;", "lap;", "larr;",
     "larrb;", "larrbfs;", "larrfs;", "larrhk;", "larrlp;", "larrpl;",
     "larrsim;", "larrtl;", "lat;", "latail;", "late;", "lates;", "lbarr;",
     "lbbrk;", "lbrke;", "lbrksld;", "lbrkslu;", "lcaron;", "lcedil;",
     "lceil;", "lcy;", "ldca;", "ldquo;", "ldquor;", "ldrdhar;", "ldrushar;",
     "ldsh;", "le;", "leftarrow;", "leftarrowtail;", "leftharpoondown;",
     "leftharpoonup;", "leftleftarrows;", "leftrightarrow;",
     "leftrightarrows;", "leftrightharpoons;", "leftrightsquigarrow;",
     "leftthreetimes;", "leg;", "leq;", "leqq;", "leqslant;", "les;",
     "lescc;", "lesdot;", "lesdoto;", "lesdotor;", "lesg;", "lesges;",
     "lessapprox;", "lessdot;", "lesseqgtr;", "lesseqqgtr;", "lessgtr;",
     "lesssim;", "lfisht;", "lfloor;", "lfr;", "lg;", "lgE;", "lhard;",
     "lharu;", "lharul;", "lhblk;", "ljcy;", "ll;", "llarr;", "llcorner;",
     "llhard;", "lltri;", "lmidot;", "lmoust;", "lmoustache;", "lnE;",
     "lnap;", "lnapprox;", "lne;", "lneq;", "lneqq;", "lnsim;", "loang;",
     "loarr;", "lobrk;", "longleftarrow;", "longleftrightarrow;",
     "longmapsto;", "longrightarrow;", "looparrowleft;", "looparrowright;",
     "lopar;", "lopf;", "loplus;", "lotimes;", "lowast;", "loz;", "lozenge;",
     "lozf;", "lparlt;", "lrarr;", "lrcorner;", "lrhar;", "lrhard;", "lrm;",
     "lrtri;", "lsaquo;", "lscr;", "lsh;", "lsim;", "lsime;", "lsimg;",
     "lsquo;", "lsquor;", "lstrok;", "ltcc;", "ltcir;", "ltdot;", "lthree;",
     "ltimes;", "ltlarr;", "ltquest;", "ltrPar;", "ltri;", "ltrie;", "ltrif;",
     "lurdshar;", "luruhar;", "lvertneqq;", "lvnE;", "mDDot;", "male;",
     "malt;", "maltese;", "map;", "mapsto;", "mapstodown;", "mapstoleft;",
     "mapstoup;", "marker;", "mcomma;", "mcy;", "mdash;", "measuredangle;",
     "mfr;", "mho;", "mid;", "midcir;", "minus;", "minusb;", "minusd;",
     "minusdu;", "mlcp;", "mldr;", "mnplus;", "models;", "mopf;", "mp;",
     "mscr;", "mstpos;", "mu;", "multimap;", "mumap;", "nGg;", "nGt;",
     "nGtv;", "nLeftarrow;", "nLeftrightarrow;", "nLl;", "nLt;", "nLtv;",
     "nRightarrow;", "nVDash;", "nVdash;", "nabla;", "nacute;", "nang;",
     "nap;", "napE;", "napid;", "napos;", "napprox;", "natur;", "natural;",
     "naturals;", "nbump;", "nbumpe;", "ncap;", "ncaron;", "ncedil;",
     "ncong;", "ncongdot;", "ncup;", "ncy;", "ndash;", "ne;", "neArr;",
     "nearhk;", "nearr;", "nearrow;", "nedot;", "nequiv;", "nesear;",
     "nesim;", "nexist;", "nexists;", "nfr;", "ngE;", "nge;", "ngeq;",
     "ngeqq;", "ngeqslant;", "nges;", "ngsim;", "ngt;", "ngtr;", "nhArr;",
     "nharr;", "nhpar;", "ni;", "nis;", "nisd;", "niv;", "njcy;", "nlArr;",
     "nlE;", "nlarr;", "nldr;", "nle;", "nleftarrow;", "nleftrightarrow;",
     "nleq;", "nleqq;", "nleqslant;", "nles;", "nless;", "nlsim;", "nlt;",
     "nltri;", "nltrie;", "nmid;", "nopf;", "notin;", "notinE;", "notindot;",
     "notinva;", "notinvb;", "notinvc;", "notni;", "notniva;", "notnivb;",
     "notnivc;", "npar;", "nparallel;", "nparsl;", "npart;", "npolint;",
     "npr;", "nprcue;", "npre;", "nprec;", "npreceq;", "nrArr;", "nrarr;",
     "nrarrc;", "nrarrw;", "nrightarrow;", "nrtri;", "nrtrie;", "nsc;",
     "nsccue;", "nsce;", "nscr;", "nshortmid;", "nshortparallel;", "nsim;",
     "nsime;", "nsimeq;", "nsmid;", "nspar;", "nsqsube;", "nsqsupe;", "nsub;",
     "nsubE;", "nsube;", "nsubset;", "nsubseteq;", "nsubseteqq;", "nsucc;",
     "nsucceq;", "nsup;", "nsupE;", "nsupe;", "nsupset;", "nsupseteq;",
     "nsupseteqq;", "ntgl;", "ntlg;", "ntriangleleft;", "ntrianglelefteq;",
     "ntriangleright;", "ntrianglerighteq;", "nu;", "numero;", "numsp;",
     "nvDash;", "nvHarr;", "nvap;", "nvdash;", "nvge;", "nvgt;", "nvinfin;",
     "nvlArr;", "nvle;", "nvlt;", "nvltrie;", "nvrArr;", "nvrtrie;", "nvsim;",
     "nwArr;", "nwarhk;", "nwarr;", "nwarrow;", "nwnear;", "oS;", "oast;",
     "ocir;", "ocy;", "odash;", "odblac;", "odiv;", "odot;", "odsold;",
     "oelig;", "ofcir;", "ofr;", "ogon;", "ogt;", "ohbar;", "ohm;", "oint;",
     "olarr;", "olcir;", "olcross;", "oline;", "olt;", "omacr;", "omega;",
     "omicron;", "omid;", "ominus;", "oopf;", "opar;", "operp;", "oplus;",
     "or;", "orarr;", "ord;", "order;", "orderof;", "origof;", "oror;",
     "orslope;", "orv;", "oscr;", "osol;", "otimes;", "otimesas;", "ovbar;",
     "par;", "parallel;", "parsim;", "parsl;", "part;", "pcy;", "permil;",
     "perp;", "pertenk;", "pfr;", "phi;", "phiv;", "phmmat;", "phone;", "pi;",
     "pitchfork;", "piv;", "planck;", "planckh;", "plankv;", "plusacir;",
     "plusb;", "pluscir;", "plusdo;", "plusdu;", "pluse;", "plussim;",
     "plustwo;", "pointint;", "popf;", "pr;", "prE;", "prap;", "prcue;",
     "pre;", "prec;", "precapprox;", "preccurlyeq;", "preceq;",
     "precnapprox;", "precneqq;", "precnsim;", "precsim;", "prime;",
     "primes;", "prnE;", "prnap;", "prnsim;", "prod;", "profalar;",
     "profline;", "profsurf;", "prop;", "propto;", "prsim;", "prurel;",
     "pscr;", "psi;", "puncsp;", "qfr;", "qint;", "qopf;", "qprime;", "qscr;",
     "quaternions;", "quatint;", "questeq;", "rAarr;", "rArr;", "rAtail;",
     "rBarr;", "rHar;", "race;", "racute;", "radic;", "raemptyv;", "rang;",
     "rangd;", "range;", "rangle;", "rarr;", "rarrap;", "rarrb;", "rarrbfs;",
     "rarrc;", "rarrfs;", "rarrhk;", "rarrlp;", "rarrpl;", "rarrsim;",
     "rarrtl;", "rarrw;", "ratail;", "ratio;", "rationals;", "rbarr;",
     "rbbrk;", "rbrke;", "rbrksld;", "rbrkslu;", "rcaron;", "rcedil;",
     "rceil;", "rcy;", "rdca;", "rdldhar;", "rdquo;", "rdquor;", "rdsh;",
     "real;", "realine;", "realpart;", "reals;", "rect;", "rfisht;",
     "rfloor;", "rfr;", "rhard;", "rharu;", "rharul;", "rho;", "rhov;",
     "rightarrow;", "rightarrowtail;", "rightharpoondown;", "rightharpoonup;",
     "rightleftarrows;", "rightleftharpoons;", "rightrightarrows;",
     "rightsquigarrow;", "rightthreetimes;", "ring;", "risingdotseq;",
     "rlarr;", "rlhar;", "rlm;", "rmoust;", "rmoustache;", "rnmid;", "roang;",
     "roarr;", "robrk;", "ropar;", "ropf;", "roplus;", "rotimes;", "rpargt;",
     "rppolint;", "rrarr;", "rsaquo;", "rscr;", "rsh;", "rsquo;", "rsquor;",
     "rthree;", "rtimes;", "rtri;", "rtrie;", "rtrif;", "rtriltri;",
     "ruluhar;", "rx;", "sacute;", "sbquo;", "sc;", "scE;", "scap;",
     "scaron;", "sccue;", "sce;", "scedil;", "scirc;", "scnE;", "scnap;",
     "scnsim;", "scpolint;", "scsim;", "scy;", "sdot;", "sdotb;", "sdote;",
     "seArr;", "searhk;", "searr;", "searrow;", "seswar;", "setminus;",
     "setmn;", "sext;", "sfr;", "sfrown;", "sharp;", "shchcy;", "shcy;",
     "shortmid;", "shortparallel;", "sigma;", "sigmaf;", "sigmav;", "sim;",
     "simdot;", "sime;", "simeq;", "simg;", "simgE;", "siml;", "simlE;",
     "simne;", "simplus;", "simrarr;", "slarr;", "smallsetminus;", "smashp;",
     "smeparsl;", "smid;", "smile;", "smt;", "smte;", "smtes;", "softcy;",
     "solb;", "solbar;", "sopf;", "spades;", "spadesuit;", "spar;", "sqcap;",
     "sqcaps;", "sqcup;", "sqcups;", "sqsub;", "sqsube;", "sqsubset;",
     "sqsubseteq;", "sqsup;", "sqsupe;", "sqsupset;", "sqsupseteq;", "squ;",
     "square;", "squarf;", "squf;", "srarr;", "sscr;", "ssetmn;", "ssmile;",
     "sstarf;", "star;", "starf;", "straightepsilon;", "straightphi;", "sub;",
     "subE;", "subdot;", "sube;", "subedot;", "submult;", "subnE;", "subne;",
     "subplus;", "subrarr;", "subset;", "subseteq;", "subseteqq;",
     "subsetneq;", "subsetneqq;", "subsim;", "subsub;", "subsup;", "succ;",
     "succapprox;", "succcurlyeq;", "succeq;", "succnapprox;", "succneqq;",
     "succnsim;", "succsim;", "sum;", "sung;", "sup;", "supE;", "supdot;",
     "supdsub;", "supe;", "supedot;", "suphsol;", "suphsub;", "suplarr;",
     "supmult;", "supnE;", "supne;", "supplus;", "supset;", "supseteq;",
     "supseteqq;", "supsetneq;", "supsetneqq;", "supsim;", "supsub;",
     "supsup;", "swArr;", "swarhk;", "swarr;", "swarrow;", "swnwar;",
     "target;", "tau;", "tbrk;", "tcaron;", "tcedil;", "tcy;", "tdot;",
     "telrec;", "tfr;", "there4;", "therefore;", "theta;", "thetasym;",
     "thetav;", "thickapprox;", "thicksim;", "thinsp;", "thkap;", "thksim;",
     "tilde;", "timesb;", "timesbar;", "timesd;", "tint;", "toea;", "top;",
     "topbot;", "topcir;", "topf;", "topfork;", "tosa;", "tprime;", "trade;",
     "triangle;", "triangledown;", "triangleleft;", "trianglelefteq;",
     "triangleq;", "triangleright;", "trianglerighteq;", "tridot;", "trie;",
     "triminus;", "triplus;", "trisb;", "tritime;", "trpezium;", "tscr;",
     "tscy;", "tshcy;", "tstrok;", "twixt;", "twoheadleftarrow;",
     "twoheadrightarrow;", "uArr;", "uHar;", "uarr;", "ubrcy;", "ubreve;",
     "ucy;", "udarr;", "udblac;", "udhar;", "ufisht;", "ufr;", "uharl;",
     "uharr;", "uhblk;", "ulcorn;", "ulcorner;", "ulcrop;", "ultri;",
     "umacr;", "uogon;", "uopf;", "uparrow;", "updownarrow;",
     "upharpoonleft;", "upharpoonright;", "uplus;", "upsi;", "upsih;",
     "upsilon;", "upuparrows;", "urcorn;", "urcorner;", "urcrop;", "uring;",
     "urtri;", "uscr;", "utdot;", "utilde;", "utri;", "utrif;", "uuarr;",
     "uwangle;", "vArr;", "vBar;", "vBarv;", "vDash;", "vangrt;",
     "varepsilon;", "varkappa;", "varnothing;", "varphi;", "varpi;",
     "varpropto;", "varr;", "varrho;", "varsigma;", "varsubsetneq;",
     "varsubsetneqq;", "varsupsetneq;", "varsupsetneqq;", "vartheta;",
     "vartriangleleft;", "vartriangleright;", "vcy;", "vdash;", "vee;",
     "veebar;", "veeeq;", "vellip;", "vfr;", "vltri;", "vnsub;", "vnsup;",
     "vopf;", "vprop;", "vrtri;", "vscr;", "vsubnE;", "vsubne;", "vsupnE;",
     "vsupne;", "vzigzag;", "wcirc;", "wedbar;", "wedge;", "wedgeq;",
     "weierp;", "wfr;", "wopf;", "wp;", "wr;", "wreath;", "wscr;", "xcap;",
     "xcirc;", "xcup;", "xdtri;", "xfr;", "xhArr;", "xharr;", "xi;", "xlArr;",
     "xlarr;", "xmap;", "xnis;", "xodot;", "xopf;", "xoplus;", "xotime;",
     "xrArr;", "xrarr;", "xscr;", "xsqcup;", "xuplus;", "xutri;", "xvee;",
     "xwedge;", "yacy;", "ycirc;", "ycy;", "yfr;", "yicy;", "yopf;", "yscr;",
     "yucy;", "zacute;", "zcaron;", "zcy;", "zdot;", "zeetrf;", "zeta;",
     "zfr;", "zhcy;", "zigrarr;", "zopf;", "zscr;", "zwj;", "zwnj;"}

html5Names == {e[1] : e \in html5Latin1} \cup html5Other

html5 ==
    [name \in html5Names |->
        IF name \in html5Other THEN NoSuchString
        ELSE (CHOOSE e \in html5Latin1 : e[1] = name)[2]]

\* html._invalid_charrefs: the numbers it maps, and the characters of those
\* it maps to characters the strings hold.
invalid_charref_numbers == {0, 13} \cup (128..159)

invalid_charrefs_latin1 ==
    {<<13, "\r">>, <<129, "">>, <<141, "">>, <<143, "">>, <<144, "">>,
     <<157, "">>}

invalid_charrefs(num) ==
    IF \E e \in invalid_charrefs_latin1 : e[1] = num
    THEN (CHOOSE e \in invalid_charrefs_latin1 : e[1] = num)[2]
    ELSE NoSuchString

\* html._invalid_codepoints
invalid_codepoints ==
    (1..8) \cup {11} \cup (14..31) \cup (127..159) \cup (64976..65007)
        \cup {plane * 65536 + low : plane \in 0..16, low \in {65534, 65535}}

\* chr(num) for the characters U+0020-007E, but U+0060, and U+00A0-00FF, and
\* for the tab, the line feed and the form feed.
AsciiChars ==
    " !\"#$%&'()*+,-./0123456789:;<=>?@ABCDEFGHIJKLMNOPQRSTUVWXYZ[\\]^_"
        \o "abcdefghijklmnopqrstuvwxyz{|}~"

Latin1Chars ==
    " ¡¢£¤¥¦§¨©ª«¬­®¯°±²³´µ¶·¸¹º»¼½¾¿ÀÁÂÃÄÅÆÇÈÉÊËÌÍÎÏ"
        \o "ÐÑÒÓÔÕÖ×ØÙÚÛÜÝÞßàáâãäåæçèéêëìíîïðñòóôõö÷øùúûüýþÿ"

chr(num) ==
    IF num \in 32..95 THEN SubSeq(AsciiChars, num - 31, num - 31)
    ELSE IF num \in 97..126 THEN SubSeq(AsciiChars, num - 32, num - 32)
    ELSE IF num \in 160..255 THEN SubSeq(Latin1Chars, num - 159, num - 159)
    ELSE IF num = 9 THEN "\t"
    ELSE IF num = 10 THEN "\n"
    ELSE IF num = 12 THEN "\f"
    ELSE NoSuchString

HexDigits == "0123456789abcdef"

\* The value of a hexadecimal digit, of either case.
HexDigitValue(c) ==
    CHOOSE d \in 0..15 :
        c \in {SubSeq(HexDigits, d + 1, d + 1),
               SubSeq("0123456789ABCDEF", d + 1, d + 1)}

\* sys.get_int_max_str_digits(): int() raises ValueError for a decimal string
\* of more digits.
int_max_str_digits == 4300

\* The number that ASCII digits write in a radix, added to acc times the
\* radix for each digit: the arithmetic of int(), without its checks.
RECURSIVE ValueOfDigits(_, _, _)
ValueOfDigits(digits, radix, acc) ==
    IF digits = "" THEN acc
    ELSE ValueOfDigits(SubSeq(digits, 2, Len(digits)), radix,
                       radix * acc + HexDigitValue(SubSeq(digits, 1, 1)))

\* The digits from the first one that is not "0" on.
WithoutLeadingZeros(digits) ==
    LET significant == {i \in 1..Len(digits) : SubSeq(digits, i, i) # "0"}
    IN  IF significant = {} THEN ""
        ELSE SubSeq(digits, CHOOSE i \in significant :
                                \A j \in significant : i <= j, Len(digits))

\* int(digits) and int(digits, 16) of html._replace_charref: None when int
\* raises ValueError, which it does for more than int_max_str_digits decimal
\* digits, the leading zeros counted.  A number of more than seven
\* significant digits is above 0x10FFFF and stands as 0x110000.
CharrefNumber(digits, radix) ==
    LET significant == WithoutLeadingZeros(digits)
    IN  IF radix = 10 /\ Len(digits) > int_max_str_digits THEN None
        ELSE IF Len(significant) > 7 THEN Some(1114112)
        ELSE Some(ValueOfDigits(significant, radix, 0))

\* html._replace_charref for the text s the pattern matched behind "&": None
\* when it raises ValueError.
replace_charref(s) ==
    IF SubSeq(s, 1, 1) = "#"
    THEN LET hex == SubSeq(s, 2, 2) \in {"x", "X"}
             body == SubSeq(s, IF hex THEN 3 ELSE 2, Len(s))
             digits == IF SubSeq(body, Len(body), Len(body)) = ";"
                       THEN SubSeq(body, 1, Len(body) - 1) ELSE body
             number == CharrefNumber(digits, IF hex THEN 16 ELSE 10)
         IN  IF number = None THEN None
             ELSE LET num == number[1]
                  IN  IF num \in invalid_charref_numbers
                      THEN Some(invalid_charrefs(num))
                      ELSE IF (55296 <= num /\ num <= 57343) \/ num > 1114111
                      THEN Some(NoSuchString)
                      ELSE IF num \in invalid_codepoints THEN Some("")
                      ELSE Some(chr(num))
    ELSE IF s \in html5Names THEN Some(html5[s])
    ELSE LET found == {x \in 2..(Len(s) - 1) : SubSeq(s, 1, x) \in html5Names}
         IN  IF found = {} THEN Some("&" \o s)
             ELSE LET x == CHOOSE y \in found : \A z \in found : z <= y
                  IN  Some(html5[SubSeq(s, 1, x)] \o SubSeq(s, x + 1, Len(s)))

\* The characters a name in html._charref does not run over.
NameStops == {"\t", "\n", "\f", " ", "<", "&", "#", ";"}

\* The length of the longest run of characters of r from place i on that are
\* in `among` (or, with `among` empty, not in NameStops), `most` at most.
RunLength(r, i, among, most) ==
    LET Ok(c) == IF among = {} THEN c \notin NameStops ELSE c \in among
        longest == IF Len(r) - i + 1 < most THEN Len(r) - i + 1 ELSE most
        stops == {j \in i..(i + longest - 1) : ~Ok(SubSeq(r, j, j))}
    IN  IF longest < 0 THEN 0
        ELSE IF stops = {} THEN longest
        ELSE (CHOOSE j \in stops : \A other \in stops : j <= other) - i

\* html._charref: the length of the match behind a "&" that r follows, 0
\* when the pattern does not match there.
CharrefLength(r) ==
    LET numeric == Len(r) >= 1 /\ SubSeq(r, 1, 1) = "#"
        decimal == IF numeric THEN RunLength(r, 2, Chars("0123456789"), Len(r)) ELSE 0
        hexadecimal ==
            IF numeric /\ Len(r) >= 2 /\ SubSeq(r, 2, 2) \in {"x", "X"}
            THEN RunLength(r, 3, Chars("0123456789abcdefABCDEF"), Len(r))
            ELSE 0
        name == RunLength(r, 1, {}, 32)
        WithSemicolon(n) ==
            IF n < Len(r) /\ SubSeq(r, n + 1, n + 1) = ";" THEN n + 1 ELSE n
    IN  IF decimal > 0 THEN WithSemicolon(1 + decimal)
        ELSE IF hexadecimal > 0 THEN WithSemicolon(2 + hexadecimal)
        ELSE IF name > 0 THEN WithSemicolon(name)
        ELSE 0

\* _charref.sub(_replace_charref, s): None when a replacement raises.
RECURSIVE charref_sub(_)
charref_sub(s) ==
    IF s = "" THEN Some("")
    ELSE LET n == IF SubSeq(s, 1, 1) = "&"
                  THEN CharrefLength(SubSeq(s, 2, Len(s)))
                  ELSE 0
             first == IF n = 0 THEN Some(SubSeq(s, 1, 1))
                      ELSE replace_charref(SubSeq(s, 2, n + 1))
             rest == charref_sub(SubSeq(s, (IF n = 0 THEN 1 ELSE n + 1) + 1, Len(s)))
         IN  IF first = None \/ rest = None THEN None
             ELSE Some(first[1] \o rest[1])

\* html.unescape(s): Some(text), or None when it raises ValueError.
unescape(s) == IF "&" \notin Chars(s) THEN Some(s) ELSE charref_sub(s)

\* A dict whose iteration order matters is the sequence of its items
\* [k, v] in insertion order.
DictKeys(d) == {d[i].k : i \in 1..Len(d)}

DictIndex(d, key) == CHOOSE i \in 1..Len(d) : d[i].k = key

DictGet(d, key) == d[DictIndex(d, key)].v

\* d[key] = value: a new key goes last, a present key keeps its place.
DictSet(d, key, value) ==
    IF key \in DictKeys(d)
    THEN [d EXCEPT ![DictIndex(d, key)] = [k |-> key, v |-> value]]
    ELSE Append(d, [k |-> key, v |-> value])

----------------------------------------------------------------------------
(* Responses *)

\* templates.TemplateResponse(name, context), the request left out.
TemplateResponse(name, context) ==
    [kind |-> "template", name |-> name, context |-> context]

\* RedirectResponse(url=url, status_code=303)
RedirectResponse(url) == [kind |-> "redirect", url |-> url, status_code |-> 303]

InvalidRoomCode == TemplateResponse("room_join.html", [error |-> "Invalid room code"])

\* What the server answers when a handler raises.
InternalServerError == [kind |-> "error", status_code |-> 500]

NoResponse == [kind |-> "none"]
NoRequest == [op |-> "none"]

----------------------------------------------------------------------------
(* The question source *)

\* Lines 12-16.
CATEGORIES == [general |-> 9, tech |-> 18, movies |-> 11]

\* What the provider holds: one item with a wrong answer to shuffle among, one
\* without, one whose text carries a character reference.
Item1 == [question |-> "Q1", correct_answer |-> "y", incorrect_answers |-> <<"x">>]
Item2 == [question |-> "Q2", correct_answer |-> "x", incorrect_answers |-> <<>>]
Item3 == [question |-> "R&amp;B", correct_answer |-> "y", incorrect_answers |-> <<>>]

EmptyDict == [k \in {} |-> k]

\* The values `data` can have after lines 25-29: the provider's JSON for the
\* category, or {} when the call or the decoding raised.
ApiResponses(cat_id) ==
    {EmptyDict} \cup
    (CASE cat_id = CATEGORIES.general -> {[results |-> <<Item1>>]}
       [] cat_id = CATEGORIES.movies -> {[results |-> <<Item2, Item3>>]}
       [] OTHER -> {[results |-> <<>>]})

\* random.shuffle(options): every order of the options.
Shuffles(options) ==
    {[i \in 1..Len(options) |-> options[p[i]]] : p \in Permutations(1..Len(options))}

\* Lines 33-42: what one item can become: Some(question) for every shuffle,
\* or None when an html.unescape raises.
QuestionsOf(item) ==
    LET qtext == unescape(item.question)
        correct == unescape(item.correct_answer)
        incorrect == [i \in 1..Len(item.incorrect_answers) |->
                         unescape(item.incorrect_answers[i])]
    IN  IF \/ qtext = None
           \/ correct = None
           \/ \E i \in 1..Len(incorrect) : incorrect[i] = None
        THEN {None}
        ELSE {Some([question |-> qtext[1], answer |-> correct[1], options |-> o]) :
                o \in Shuffles([i \in 1..Len(incorrect) |-> incorrect[i][1]]
                                   \o <<correct[1]>>)}

\* Lines 30-43: what the items can become: Some(questions), or None when the
\* loop raises at one of them.
RECURSIVE QuestionLists(_)
QuestionLists(items) ==
    IF items = <<>>
    THEN {Some(<<>>)}
    ELSE {IF q = None \/ rest = None THEN None ELSE Some(<<q[1]>> \o rest[1]) :
             q \in QuestionsOf(Head(items)),
             rest \in QuestionLists(Tail(items))}

\* Lines 22-43: what fetch_questions can do for a category key: return a list,
\* Some(questions), or raise, None.
fetch_questions(category_key) ==
    LET cat_id == IF category_key \in DOMAIN CATEGORIES
                  THEN CATEGORIES[category_key]
                  ELSE CATEGORIES["general"]
    IN  UNION {QuestionLists(IF "results" \in DOMAIN data THEN data.results ELSE <<>>) :
                  data \in ApiResponses(cat_id)}

----------------------------------------------------------------------------
(* Room codes *)

\* Line 46.
alphabet == "ABCDEFGHIJKLMNOPQRSTUVWXYZ" \o "0123456789"

\* The codes the model draws: a sample of the strings over the alphabet.
CodeSample == {"AAAAAA", "K7Q2ZM"}

\* Lines 45-47: the codes gen_room_code(n) can return, within the sample.
gen_room_code(n) ==
    {c \in CodeSample : Len(c) = n /\ Chars(c) \subseteq Chars(alphabet)}

----------------------------------------------------------------------------
(* The handlers.  Each is the function from the registry and the request   *)
(* to the registry and the response it leaves.                             *)

\* Lines 112-125, with `code` the value gen_room_code returned and `fetched`
\* what fetch_questions did: when it raised, so does the handler, and the
\* server answers with the error.
create_room(rooms, domain, code, fetched) ==
    LET d == IF domain \notin DOMAIN CATEGORIES THEN "general" ELSE domain
    IN  IF fetched = None
        THEN [rooms |-> rooms, resp |-> InternalServerError]
        ELSE LET room == [domain |-> d, questions |-> fetched[1],
                          players |-> <<>>, created |-> TRUE]
             IN  [rooms |-> [c \in DOMAIN rooms \cup {code} |->
                               IF c = code THEN room ELSE rooms[c]],
                  resp |-> RedirectResponse("/room/" \o code)]

\* Lines 127-138.
room_join_page(rooms, code) ==
    IF code \notin DOMAIN rooms
    THEN [rooms |-> rooms, resp |-> InvalidRoomCode]
    ELSE [rooms |-> rooms,
          resp |-> TemplateResponse("room_join.html",
                      [code |-> code, domain |-> rooms[code].domain,
                       question_count |-> Len(rooms[code].questions)])]

\* Line 150: the state a player is registered with.
NewPlayer == [answers |-> EmptyDict, submitted |-> FALSE]

\* A variant of line 148 that draws two digits instead of three.
StoredNameTwoDigits(players, username, digits) ==
    LET uname == IF strip(username) # "" THEN strip(username) ELSE "Player"
    IN  IF uname \in DictKeys(players)
        THEN uname \o "_" \o SubSeq(digits, 1, 2)
        ELSE uname

\* Lines 146-148: the name room_join stores; `digits` are the three digits
\* secrets.choice draws when the name is taken.
StoredName(players, username, digits) ==
    LET uname == IF strip(username) # "" THEN strip(username) ELSE "Player"
    IN  IF uname \in DictKeys(players) THEN uname \o "_" \o digits ELSE uname

\* A variant of lines 142-144 that opens a room for a code that is not
\* registered (ROOMS.setdefault in place of ROOMS.get).
room_join_or_open(rooms, code, username, digits) ==
    LET opened == [domain |-> "general", questions |-> <<>>, players |-> <<>>,
                   created |-> TRUE]
        room == IF code \in DOMAIN rooms THEN rooms[code] ELSE opened
        uname == StoredName(room.players, username, digits)
    IN  [rooms |-> [c \in DOMAIN rooms \cup {code} |->
                      IF c = code
                      THEN [room EXCEPT !.players =
                                DictSet(room.players, uname, NewPlayer)]
                      ELSE rooms[c]],
         resp |-> RedirectResponse(
                     "/room/" \o code \o "/quiz?username=" \o uname)]

\* Lines 140-152.
room_join(rooms, code, username, digits) ==
    IF code \notin DOMAIN rooms
    THEN [rooms |-> rooms, resp |-> InvalidRoomCode]
    ELSE LET room == rooms[code]
             uname == StoredName(room.players, username, digits)
         IN  [rooms |-> [rooms EXCEPT ![code].players =
                            DictSet(room.players, uname, NewPlayer)],
              resp |-> RedirectResponse(
                          "/room/" \o code \o "/quiz?username=" \o uname)]

\* form.get(key)
FormGet(form, key) == IF key \in DOMAIN form THEN Some(form[key]) ELSE None

\* Lines 188-192: the answer recorded for one non-empty field value.
ParseAnswer(val) ==
    LET parts == split(val, "||")
        ok == Len(parts) = 3
        qtext == IF ok THEN parts[1] ELSE val
        correct == IF ok THEN parts[2] ELSE ""
        selected == IF ok THEN parts[3] ELSE ""
    IN  [question |-> qtext, correct |-> correct, selected |-> selected,
         is_correct |-> (selected = correct)]

\* Lines 183-192: the answers collected from the q* fields of a form.
CollectAnswers(form) ==
    LET keys == {k \in DOMAIN form : startswith(k, "q") /\ form[k] # ""}
    IN  [k \in keys |-> ParseAnswer(form[k])]

\* A variant of lines 193-194 that writes the submission to every room that
\* holds a player of that name.
room_submit_everywhere(rooms, code, form) ==
    LET username == FormGet(form, "username")
    IN  IF code \notin DOMAIN rooms
        THEN [rooms |-> rooms, resp |-> InvalidRoomCode]
        ELSE IF username = None \/ username[1] \notin DictKeys(rooms[code].players)
        THEN [rooms |-> rooms, resp |-> RedirectResponse("/room/" \o code)]
        ELSE LET info == [answers |-> CollectAnswers(form), submitted |-> TRUE]
             IN  [rooms |-> [c \in DOMAIN rooms |->
                               IF username[1] \in DictKeys(rooms[c].players)
                               THEN [rooms[c] EXCEPT !.players =
                                        DictSet(rooms[c].players, username[1], info)]
                               ELSE rooms[c]],
                  resp |-> RedirectResponse(
                              "/room/" \o code \o "/results?username=" \o username[1])]

\* A variant of line 193 that adds the collected answers to the ones the
\* player has (dict.update in place of the assignment).
room_submit_merging(rooms, code, form) ==
    LET username == FormGet(form, "username")
    IN  IF code \notin DOMAIN rooms
        THEN [rooms |-> rooms, resp |-> InvalidRoomCode]
        ELSE IF username = None \/ username[1] \notin DictKeys(rooms[code].players)
        THEN [rooms |-> rooms, resp |-> RedirectResponse("/room/" \o code)]
        ELSE LET room == rooms[code]
                 old == DictGet(room.players, username[1]).answers
                 info == [answers |-> CollectAnswers(form) @@ old,
                          submitted |-> TRUE]
             IN  [rooms |-> [rooms EXCEPT ![code].players =
                                DictSet(room.players, username[1], info)],
                  resp |-> RedirectResponse(
                              "/room/" \o code \o "/results?username=" \o username[1])]

\* A variant of lines 179-181 that records the submission of a named player
\* the room does not hold, registering the player with it.
room_submit_any_player(rooms, code, form) ==
    LET username == FormGet(form, "username")
    IN  IF code \notin DOMAIN rooms
        THEN [rooms |-> rooms, resp |-> InvalidRoomCode]
        ELSE IF username = None
        THEN [rooms |-> rooms, resp |-> RedirectResponse("/room/" \o code)]
        ELSE LET room == rooms[code]
                 info == [answers |-> CollectAnswers(form), submitted |-> TRUE]
             IN  [rooms |-> [rooms EXCEPT ![code].players =
                                DictSet(room.players, username[1], info)],
                  resp |-> RedirectResponse(
                              "/room/" \o code \o "/results?username=" \o username[1])]

\* Lines 172-196, from line 175 on: the form has been read.
room_submit(rooms, code, form) ==
    LET username == FormGet(form, "username")
    IN  IF code \notin DOMAIN rooms
        THEN [rooms |-> rooms, resp |-> InvalidRoomCode]
        ELSE IF username = None \/ username[1] \notin DictKeys(rooms[code].players)
        THEN [rooms |-> rooms, resp |-> RedirectResponse("/room/" \o code)]
        ELSE LET room == rooms[code]
                 info == [answers |-> CollectAnswers(form), submitted |-> TRUE]
             IN  [rooms |-> [rooms EXCEPT ![code].players =
                                DictSet(room.players, username[1], info)],
                  resp |-> RedirectResponse(
                              "/room/" \o code \o "/results?username=" \o username[1])]

\* Line 207: the number of recorded answers marked correct.
Score(ansmap) == Cardinality({k \in DOMAIN ansmap : ansmap[k].is_correct})

\* Lines 204-209: one entry per player, in the order of the players dict.
LeaderboardEntries(players) ==
    [i \in 1..Len(players) |->
        [username |-> players[i].k, score |-> Score(players[i].v.answers),
         submitted |-> players[i].v.submitted]]

\* list.sort is stable; with reverse=True an entry goes behind every entry
\* whose key is greater than or equal to its own.
InsertDescending(sorted, e) ==
    LET ahead == {i \in 1..Len(sorted) : sorted[i].score >= e.score}
        n == IF ahead = {} THEN 0 ELSE CHOOSE i \in ahead : \A j \in ahead : j <= i
    IN  SubSeq(sorted, 1, n) \o <<e>> \o SubSeq(sorted, n + 1, Len(sorted))

RECURSIVE SortedFrom(_, _)
SortedFrom(sorted, rest) ==
    IF rest = <<>>
    THEN sorted
    ELSE SortedFrom(InsertDescending(sorted, Head(rest)), Tail(rest))

\* A variant of line 211 that sorts ascending and reverses the list, which
\* turns the order of equal scores around.
RECURSIVE Reversed(_)
Reversed(list) ==
    IF list = <<>> THEN <<>> ELSE Append(Reversed(Tail(list)), Head(list))

SortAscendingThenReverse(players) == SortedFrom(<<>>, Reversed(players))

\* Line 211: sorted(players, key=score, reverse=True)
SortByScoreDescending(players) == SortedFrom(<<>>, players)

\* A variant of lines 213-225 that lists a placeholder per question for a
\* username the room does not hold.
DetailedOrPlaceholders(room, username) ==
    LET known == username # None /\ username[1] # ""
                     /\ username[1] \in DictKeys(room.players)
        answers == IF known THEN DictGet(room.players, username[1]).answers
                   ELSE EmptyDict
    IN  [j \in 1..Len(room.questions) |->
            LET key == "q" \o ToString(j - 1)
            IN  IF key \in DOMAIN answers
                THEN answers[key]
                ELSE [question |-> room.questions[j].question,
                      correct |-> room.questions[j].answer,
                      selected |-> "", is_correct |-> FALSE]]

\* A variant of line 218 that numbers the keys from q1 instead of q0.
DetailedOneBased(room, username) ==
    LET known == username # None /\ username[1] # ""
                     /\ username[1] \in DictKeys(room.players)
    IN  IF ~known
        THEN <<>>
        ELSE LET answers == DictGet(room.players, username[1]).answers
             IN  [j \in 1..Len(room.questions) |->
                    LET key == "q" \o ToString(j)
                    IN  IF key \in DOMAIN answers
                        THEN answers[key]
                        ELSE [question |-> room.questions[j].question,
                              correct |-> room.questions[j].answer,
                              selected |-> "", is_correct |-> FALSE]]

\* Lines 213-225: the detailed answers of `username` (None when unset).
Detailed(room, username) ==
    LET known == username # None /\ username[1] # ""
                     /\ username[1] \in DictKeys(room.players)
    IN  IF ~known
        THEN <<>>
        ELSE LET answers == DictGet(room.players, username[1]).answers
             IN  [j \in 1..Len(room.questions) |->
                    LET key == "q" \o ToString(j - 1)
                    IN  IF key \in DOMAIN answers
                        THEN answers[key]
                        ELSE [question |-> room.questions[j].question,
                              correct |-> room.questions[j].answer,
                              selected |-> "", is_correct |-> FALSE]]

\* Lines 198-233.
room_results(rooms, code, username) ==
    IF code \notin DOMAIN rooms
    THEN [rooms |-> rooms, resp |-> InvalidRoomCode]
    ELSE LET room == rooms[code]
         IN  [rooms |-> rooms,
              resp |-> TemplateResponse("room_results.html",
                          [code |-> code,
                           players |-> SortByScoreDescending(
                                          LeaderboardEntries(room.players)),
                           details |-> Detailed(room, username),
                           username |-> username,
                           total_questions |-> Len(room.questions)])]

----------------------------------------------------------------------------
(* The inputs the model draws *)

\* The players the registry may hold in all (a bound of the model).
MaxPlayers == 2

DomainInputs == {"movies", "sports"}

CodeInputs == CodeSample

NameInputs == {"A", " A ", "  "}

\* Outcomes of the three draws of secrets.choice(string.digits), line 148.
DigitInputs == {"000", "042"}

\* Usernames a client may name in a submission or a results request.
UserInputs == {"A", "A_000"}

\* The q* fields of a submission: none; the right answer to Q1; the right
\* answers to Q2 and R&B; a wrong answer to Q2; a value without separators
\* beside an empty one.
FieldInputs ==
    { EmptyDict,
      [q0 |-> "Q1||y||y"],
      [q0 |-> "Q2||x||x", q1 |-> "R&B||y||y"],
      [q0 |-> "Q2||x||y"],
      [q0 |-> "Q1", q1 |-> ""] }

FormOf(fields, username) ==
    IF username = None THEN fields ELSE fields @@ [username |-> username[1]]

TotalPlayers(rooms) ==
    LET codes == DOMAIN rooms
        RECURSIVE Sum(_)
        Sum(S) == IF S = {} THEN 0
                  ELSE LET c == CHOOSE x \in S : TRUE
                       IN  Len(rooms[c].players) + Sum(S \ {c})
    IN  Sum(codes)

----------------------------------------------------------------------------
(* Spec: the handlers, one request after the other *)

Init ==
    /\ ROOMS = EmptyDict
    /\ req = NoRequest
    /\ resp = NoResponse
    /\ batch = <<>>
    /\ base = EmptyDict

CreateRoom ==
    \E domain \in DomainInputs, code \in gen_room_code(6) :
        \E fetched \in fetch_questions(
                IF domain \notin DOMAIN CATEGORIES THEN "general" ELSE domain) :
            LET result == create_room(ROOMS, domain, code, fetched)
            IN  /\ ROOMS' = result.rooms
                /\ req' = [op |-> "create_room", domain |-> domain]
                /\ resp' = result.resp
                /\ UNCHANGED <<batch, base>>

RoomJoinPage ==
    \E code \in CodeInputs :
        LET result == room_join_page(ROOMS, code)
        IN  /\ ROOMS' = result.rooms
            /\ req' = [op |-> "room_join_page", code |-> code]
            /\ resp' = result.resp
            /\ UNCHANGED <<batch, base>>

RoomJoin ==
    \E code \in CodeInputs, username \in NameInputs, digits \in DigitInputs :
        LET result == room_join(ROOMS, code, username, digits)
        IN  /\ TotalPlayers(result.rooms) <= MaxPlayers
            /\ ROOMS' = result.rooms
            /\ req' = [op |-> "room_join", code |-> code, username |-> username]
            /\ resp' = result.resp
            /\ UNCHANGED <<batch, base>>

RoomSubmit ==
    \E code \in CodeInputs, fields \in FieldInputs,
       username \in {None} \cup {Some(u) : u \in UserInputs} :
        LET form == FormOf(fields, username)
            result == room_submit(ROOMS, code, form)
        IN  /\ ROOMS' = result.rooms
            /\ req' = [op |-> "room_submit", code |-> code, form |-> form]
            /\ resp' = result.resp
            /\ UNCHANGED <<batch, base>>

RoomResults ==
    \E code \in CodeInputs, username \in {None} \cup {Some(u) : u \in UserInputs} :
        LET result == room_results(ROOMS, code, username)
        IN  /\ ROOMS' = result.rooms
            /\ req' = [op |-> "room_results", code |-> code, username |-> username]
            /\ resp' = result.resp
            /\ UNCHANGED <<batch, base>>

Next ==
    \/ CreateRoom
    \/ RoomJoinPage
    \/ RoomJoin
    \/ RoomSubmit
    \/ RoomResults

Spec == Init /\ [][Next]_vars

----------------------------------------------------------------------------
(* SpecConc: requests in flight together.  A batch of join and submit      *)
(* requests for one room is started on a registry the handlers can build,  *)
(* and the event loop runs the coroutines in any order: room_join runs     *)
(* from "start" to "done" in one step; room_submit is suspended at line    *)
(* 174 ("start"), resumes with the form ("form") and then runs to "done".  *)

\* The requests a batch may hold at most (a bound of the model).
MaxBatch == 2

ConcCode == "AAAAAA"

ConcCreated ==
    {create_room(EmptyDict, "movies", ConcCode, fetched).rooms :
        fetched \in {f \in fetch_questions("movies") : f # None}}

ConcJoinedOnce == {room_join(r, ConcCode, "A", "000").rooms : r \in ConcCreated}

ConcJoinedTwice ==
    {room_join(r, ConcCode, "A", d).rooms : r \in ConcJoinedOnce, d \in DigitInputs}

ConcSubmitted ==
    {room_submit(r, ConcCode,
                 FormOf([q0 |-> "Q2||x||x", q1 |-> "R&B||y||y"], Some("A_000"))).rooms :
        r \in ConcJoinedTwice}

\* The registries a batch starts on.
ConcRooms == ConcCreated \cup ConcJoinedOnce \cup ConcJoinedTwice \cup ConcSubmitted

ConcJoinRequest(username) ==
    [op |-> "room_join", code |-> ConcCode, username |-> username,
     form |-> EmptyDict, pc |-> "start", resp |-> NoResponse]

ConcSubmitRequest(username, fields) ==
    [op |-> "room_submit", code |-> ConcCode, username |-> username,
     form |-> FormOf(fields, Some(username)), pc |-> "start", resp |-> NoResponse]

ConcRequests ==
    {ConcJoinRequest(u) : u \in {"A", " A ", "B"}}
    \cup {ConcSubmitRequest(u, f) :
            u \in UserInputs,
            f \in {EmptyDict, [q0 |-> "Q1||y||y"],
                   [q0 |-> "Q2||x||x", q1 |-> "R&B||y||y"]}}

\* Two requests or more, up to MaxBatch, in the order of their arrival.
ConcBatches == UNION {[1..n -> ConcRequests] : n \in 2..MaxBatch}

InitConc ==
    /\ ROOMS \in ConcRooms
    /\ base = ROOMS
    /\ batch \in ConcBatches
    /\ req = NoRequest
    /\ resp = NoResponse

\* Lines 140-152: the event loop runs a room_join coroutine.
ConcJoin(i) ==
    /\ batch[i].op = "room_join"
    /\ batch[i].pc = "start"
    /\ \E digits \in DigitInputs :
          LET result == room_join(ROOMS, batch[i].code, batch[i].username, digits)
          IN  /\ ROOMS' = result.rooms
              /\ resp' = result.resp
              /\ batch' = [batch EXCEPT ![i].pc = "done", ![i].resp = result.resp]
    /\ req' = [op |-> "room_join", code |-> batch[i].code,
               username |-> batch[i].username]
    /\ UNCHANGED base

\* Line 174: a suspended room_submit coroutine is resumed with its form.
ConcReadForm(i) ==
    /\ batch[i].op = "room_submit"
    /\ batch[i].pc = "start"
    /\ batch' = [batch EXCEPT ![i].pc = "form"]
    /\ UNCHANGED <<ROOMS, req, resp, base>>

\* Lines 175-196: the room_submit coroutine runs to its end.
ConcSubmit(i) ==
    /\ batch[i].op = "room_submit"
    /\ batch[i].pc = "form"
    /\ LET result == room_submit(ROOMS, batch[i].code, batch[i].form)
       IN  /\ ROOMS' = result.rooms
           /\ resp' = result.resp
           /\ batch' = [batch EXCEPT ![i].pc = "done", ![i].resp = result.resp]
    /\ req' = [op |-> "room_submit", code |-> batch[i].code, form |-> batch[i].form]
    /\ UNCHANGED base

NextConc ==
    \/ \E i \in 1..Len(batch) : ConcJoin(i)
    \/ \E i \in 1..Len(batch) : ConcReadForm(i)
    \/ \E i \in 1..Len(batch) : ConcSubmit(i)

SpecConc == InitConc /\ [][NextConc]_vars

----------------------------------------------------------------------------
(* SpecSingle: the single-player results handler, lines 76-105.  It reads  *)
(* and writes no room: the response is a function of the submitted form.   *)

\* Characters in the order of their code points, as far as the keys of a
\* form use them.
CodePointOrder ==
    " 0123456789" \o "ABCDEFGHIJKLMNOPQRSTUVWXYZ" \o "_"
        \o "abcdefghijklmnopqrstuvwxyz"

Ord(c) == CHOOSE i \in 1..Len(CodePointOrder) : SubSeq(CodePointOrder, i, i) = c

\* a < b for strings: the comparison sorted() uses on the keys.
RECURSIVE StrLess(_, _)
StrLess(a, b) ==
    IF b = "" THEN FALSE
    ELSE IF a = "" THEN TRUE
    ELSE IF SubSeq(a, 1, 1) # SubSeq(b, 1, 1)
    THEN Ord(SubSeq(a, 1, 1)) < Ord(SubSeq(b, 1, 1))
    ELSE StrLess(SubSeq(a, 2, Len(a)), SubSeq(b, 2, Len(b)))

\* sorted(keys) for a set of distinct strings.
RECURSIVE SortedKeys(_)
SortedKeys(keys) ==
    IF keys = {} THEN <<>>
    ELSE LET least == CHOOSE k \in keys : \A other \in keys \ {k} : StrLess(k, other)
         IN  <<least>> \o SortedKeys(keys \ {least})

DigitValue(c) == CHOOSE d \in 0..9 : ToString(d) = c

\* The value of a string of digits and underscores, the underscores skipped.
RECURSIVE ValueFrom(_, _)
ValueFrom(s, acc) ==
    IF s = "" THEN acc
    ELSE IF SubSeq(s, 1, 1) = "_" THEN ValueFrom(SubSeq(s, 2, Len(s)), acc)
    ELSE ValueFrom(SubSeq(s, 2, Len(s)), 10 * acc + DigitValue(SubSeq(s, 1, 1)))

\* The same value from the first digit on that is not "0": leading zeros and
\* the underscores among them add nothing.
DigitsValue(s) ==
    LET significant == {i \in 1..Len(s) : SubSeq(s, i, i) \notin {"0", "_"}}
    IN  IF significant = {} THEN 0
        ELSE ValueFrom(SubSeq(s, CHOOSE i \in significant :
                                     \A j \in significant : i <= j, Len(s)), 0)

\* The whitespace int() skips around a number: the characters of Whitespace
\* but U+001C-001F, which it takes for part of the number.
IntWhitespace == Whitespace \ {"", "", "", ""}

\* s without the leading and trailing characters of IntWhitespace.
SkipIntWhitespace(s) ==
    LET kept == {i \in 1..Len(s) : SubSeq(s, i, i) \notin IntWhitespace}
    IN  IF kept = {} THEN ""
        ELSE SubSeq(s, CHOOSE i \in kept : \A j \in kept : i <= j,
                       CHOOSE i \in kept : \A j \in kept : j <= i)

\* int(s) for a string: surrounding whitespace, an optional sign, then digits
\* with single underscores between them, int_max_str_digits digits at most;
\* None when int raises ValueError.  The digits of U+0000-00FF are the ASCII
\* digits; the value is computed for numbers below 2^31.
IntOfString(s) ==
    LET t == SkipIntWhitespace(s)
        signed == Len(t) > 0 /\ SubSeq(t, 1, 1) \in {"+", "-"}
        body == IF signed THEN SubSeq(t, 2, Len(t)) ELSE t
        n == Len(body)
        wellFormed ==
            /\ n > 0
            /\ \A i \in 1..n : SubSeq(body, i, i) \in Chars("0123456789_")
            /\ SubSeq(body, 1, 1) # "_"
            /\ SubSeq(body, n, n) # "_"
            /\ \A i \in 1..(n - 1) : SubSeq(body, i, i + 1) # "__"
            /\ Cardinality({i \in 1..n : SubSeq(body, i, i) # "_"})
                   <= int_max_str_digits
    IN  IF ~wellFormed THEN None
        ELSE IF signed /\ SubSeq(t, 1, 1) = "-"
        THEN Some(0 - DigitsValue(body))
        ELSE Some(DigitsValue(body))

\* Line 81: int(form.get("total_questions") or 0); None when int raises.
TotalQuestions(form) ==
    LET stated == FormGet(form, "total_questions")
    IN  IF stated = None \/ stated[1] = "" THEN Some(0) ELSE IntOfString(stated[1])

\* Lines 82-96: the answers, in the sorted order of the q* keys.
SingleAnswers(form) ==
    LET keys == SortedKeys({k \in DOMAIN form : startswith(k, "q")})
        kept == SelectSeq(keys, LAMBDA k : form[k] # "")
    IN  [i \in 1..Len(kept) |-> ParseAnswer(form[kept[i]])]

\* A variant of line 104 that reports the number of entries as the total.
single_player_results_counted(form) ==
    LET total_questions == TotalQuestions(form)
        answers == SingleAnswers(form)
        score == Cardinality({i \in 1..Len(answers) : answers[i].is_correct})
    IN  IF total_questions = None
        THEN InternalServerError
        ELSE TemplateResponse("single_player_results.html",
                 [results |-> answers, score |-> score, total |-> Len(answers)])

\* Lines 76-105, from line 81 on: the form has been read.
single_player_results(form) ==
    LET total_questions == TotalQuestions(form)
        answers == SingleAnswers(form)
        score == Cardinality({i \in 1..Len(answers) : answers[i].is_correct})
    IN  IF total_questions = None
        THEN InternalServerError
        ELSE TemplateResponse("single_player_results.html",
                 [results |-> answers, score |-> score,
                  total |-> total_questions[1]])

\* The values a client states as the total: none, an empty one, numbers as
\* the page writes them, one with blanks around it, one that is no number,
\* and one behind U+001F, which int() does not skip.
TotalInputs ==
    {None, Some(""), Some("0"), Some("1"), Some("10"), Some(" 2 "), Some("x"),
     Some("2")}

\* The values of a q* field: missing, empty, the right selection, a wrong
\* one, none, and a value without separators.
SingleValueInputs ==
    {None, Some(""), Some("Q1||y||y"), Some("Q1||y||x"), Some("Q1||y||"), Some("Q1")}

Field(key, value) == IF value = None THEN EmptyDict ELSE (key :> value[1])

SingleForms ==
    {Field("total_questions", t) @@ Field("q0", a) @@ Field("q2", b) @@ Field("q10", c) :
        t \in TotalInputs, a \in SingleValueInputs, b \in SingleValueInputs,
        c \in SingleValueInputs}

SinglePlayerResults ==
    \E form \in SingleForms :
        /\ req' = [op |-> "single_player_results", form |-> form]
        /\ resp' = single_player_results(form)
        /\ UNCHANGED <<ROOMS, batch, base>>

NextSingle == SinglePlayerResults

SpecSingle == Init /\ [][NextSingle]_vars

----------------------------------------------------------------------------
(* What the claims speak of *)

DecimalDigits == Chars("0123456789")

\* The username a join redirect sends the player on with.
JoinUrl(code) == "/room/" \o code \o "/quiz?username="

Joined(response, code) ==
    response.kind = "redirect" /\ startswith(response.url, JoinUrl(code))

JoinedName(response, code) ==
    SubSeq(response.url, Len(JoinUrl(code)) + 1, Len(response.url))

\* The desired name as JoinRoom takes it: trimmed, "Player" when blank.
Trimmed(name) == IF strip(name) = "" THEN "Player" ELSE strip(name)

\* name is stem, an underscore and exactly three decimal digits.
HasSuffix(name, stem) ==
    /\ Len(name) = Len(stem) + 4
    /\ SubSeq(name, 1, Len(stem) + 1) = stem \o "_"
    /\ \A i \in (Len(stem) + 2)..(Len(stem) + 4) : SubSeq(name, i, i) \in DecimalDigits

Names(rooms, code) == DictKeys(rooms[code].players)

PlayerOf(rooms, code, name) == DictGet(rooms[code].players, name)

\* The last request was a results request for a registered room.
IsResults ==
    /\ req.op = "room_results"
    /\ req.code \in DOMAIN ROOMS
    /\ resp.kind = "template"
    /\ resp.name = "room_results.html"

NumCorrect(answers) == Cardinality({k \in DOMAIN answers : answers[k].is_correct})

----------------------------------------------------------------------------
(* C1 *)

\* C1: the code a CreateRoom returns differs from the code of every room
\* registered at the moment of the call, and no registered room is replaced.
C1_CreateRoomCodeIsFresh ==
    [][req'.op = "create_room" =>
          \A c \in DOMAIN ROOMS :
              /\ resp'.kind = "redirect" => resp'.url # "/room/" \o c
              /\ ROOMS'[c] = ROOMS[c]]_vars

----------------------------------------------------------------------------
(* C5 *)

\* C5: every successful JoinRoom registers a new player: the room has one
\* player more, and every player registered before keeps its answers and
\* its submitted flag.
C5_JoinAddsOnePlayer ==
    [][(req'.op = "room_join" /\ Joined(resp', req'.code)) =>
          LET before == ROOMS[req'.code].players
              after == ROOMS'[req'.code].players
          IN  /\ Len(after) = Len(before) + 1
              /\ \A i \in 1..Len(before) : after[i] = before[i]]_vars

----------------------------------------------------------------------------
(* C6, C7 *)

\* The index a key q<i> names among n questions, 0 when it names none.
QuestionIndex(key, n) ==
    LET hits == {j \in 1..n : key = "q" \o ToString(j - 1)}
    IN  IF hits = {} THEN 0 ELSE CHOOSE j \in hits : TRUE

\* C6: a recorded answer is marked correct exactly when its selected option
\* is the correct answer of the room's own question at that index.
C6_CorrectMeansRoomAnswer ==
    \A code \in DOMAIN ROOMS :
        \A i \in 1..Len(ROOMS[code].players) :
            LET answers == ROOMS[code].players[i].v.answers
                questions == ROOMS[code].questions
            IN  \A key \in DOMAIN answers :
                    LET j == QuestionIndex(key, Len(questions))
                    IN  j # 0 =>
                          (answers[key].is_correct <=>
                              answers[key].selected = questions[j].answer)

\* C7: a recorded answer whose selected option is empty is marked incorrect.
C7_EmptySelectionIsIncorrect ==
    \A code \in DOMAIN ROOMS :
        \A i \in 1..Len(ROOMS[code].players) :
            LET answers == ROOMS[code].players[i].v.answers
            IN  \A key \in DOMAIN answers :
                    answers[key].selected = "" => ~answers[key].is_correct

----------------------------------------------------------------------------
(* C8 *)

\* The place of a player in the order in which the players joined the room.
JoinPlace(code, name) == DictIndex(ROOMS[code].players, name)

\* C8: Leaderboard returns one entry per registered player, ordered by score
\* descending, and players with equal scores appear in the order in which
\* they joined the room.
C8_LeaderboardOrder ==
    IsResults =>
        LET board == resp.context.players
            players == ROOMS[req.code].players
        IN  /\ Len(board) = Len(players)
            /\ {board[i].username : i \in 1..Len(board)} = DictKeys(players)
            /\ \A i \in 1..Len(board) :
                   LET info == DictGet(players, board[i].username)
                   IN  /\ board[i].score = NumCorrect(info.answers)
                       /\ board[i].submitted = info.submitted
            /\ \A i, j \in 1..Len(board) :
                   i < j =>
                     /\ board[i].score >= board[j].score
                     /\ board[i].score = board[j].score =>
                          JoinPlace(req.code, board[i].username)
                              < JoinPlace(req.code, board[j].username)

\* A leaderboard of two players who tie on a score above zero.
C8_Witness ==
    /\ IsResults
    /\ Len(resp.context.players) = 2
    /\ resp.context.players[1].score = resp.context.players[2].score
    /\ resp.context.players[1].score > 0

----------------------------------------------------------------------------
(* C9 *)

\* C9: Leaderboard reports len(questions) for a player who submitted and
\* selected the correct answer on every question, and 0 for a player who
\* answered no question or never submitted.
C9_FullAndZeroScores ==
    IsResults =>
        LET board == resp.context.players
            room == ROOMS[req.code]
            n == Len(room.questions)
        IN  \A i \in 1..Len(board) :
                LET info == DictGet(room.players, board[i].username)
                    allRight ==
                        /\ info.submitted
                        /\ \A j \in 1..n :
                               LET key == "q" \o ToString(j - 1)
                               IN  /\ key \in DOMAIN info.answers
                                   /\ info.answers[key].selected =
                                          room.questions[j].answer
                    noneAnswered ==
                        \A key \in DOMAIN info.answers :
                            info.answers[key].selected = ""
                IN  /\ allRight => board[i].score = n
                    /\ noneAnswered => board[i].score = 0

----------------------------------------------------------------------------
(* C10 *)

\* The last request asked an existing room for the details of a username
\* that the room does not hold, or of none.
ResultsForUnknownPlayer ==
    /\ req.op = "room_results"
    /\ req.code \in DOMAIN ROOMS
    /\ req.username = None \/ req.username[1] \notin Names(ROOMS, req.code)

\* C10 as claimed: PlayerDetail for a username the room does not hold
\* returns len(questions) placeholders, each with an empty selection,
\* isCorrect = false and the question's correct answer.
C10_UnknownPlayerGetsPlaceholders ==
    ResultsForUnknownPlayer =>
        LET details == resp.context.details
            questions == ROOMS[req.code].questions
        IN  /\ IsResults
            /\ Len(details) = Len(questions)
            /\ \A j \in 1..Len(details) :
                   /\ details[j].selected = ""
                   /\ details[j].is_correct = FALSE
                   /\ details[j].correct = questions[j].answer

\* C10 as amended: PlayerDetail for a username the room does not hold, or
\* for no username, does not fail and returns no entry at all, however many
\* questions the room has.
C10_UnknownPlayerGetsNoDetails ==
    ResultsForUnknownPlayer =>
        /\ IsResults
        /\ resp.context.details = <<>>
        /\ resp.context.total_questions = Len(ROOMS[req.code].questions)

\* Details were asked for a named player the room does not hold, in a room
\* that has questions.
C10_Witness ==
    /\ ResultsForUnknownPlayer
    /\ req.username # None
    /\ Len(ROOMS[req.code].questions) > 0
    /\ Len(ROOMS[req.code].players) > 0
    /\ resp.context.details = <<>>

----------------------------------------------------------------------------
(* C4 *)

\* Two joins in a row asked the same room for the same name, and the first
\* was served.
SameJoinTwice ==
    /\ req.op = "room_join"
    /\ Joined(resp, req.code)
    /\ req'.op = "room_join"
    /\ req'.code = req.code
    /\ req'.username = req.username
    /\ Joined(resp', req'.code)

\* C4 as claimed: of two JoinRoom(code, name) in a row the first stores
\* name itself and the second name, an underscore and three decimal digits.
C4_SecondJoinGetsSuffix ==
    [][SameJoinTwice =>
          LET first == JoinedName(resp, req.code)
              second == JoinedName(resp', req.code)
          IN  /\ first = req.username
              /\ HasSuffix(second, req.username)
              /\ first # second
              /\ {first, second} \subseteq Names(ROOMS', req.code)]_vars

\* C4 as amended: JoinRoom stores the desired name trimmed of surrounding
\* whitespace ("Player" when nothing is left) when the room does not hold
\* that name yet; a second JoinRoom with the same desired name, right after,
\* stores the trimmed name followed by an underscore and exactly three
\* decimal digits, and the room then holds both, distinct, names.
C4_TrimmedThenSuffixed ==
    [][/\ (/\ req'.op = "room_join"
           /\ Joined(resp', req'.code)
           /\ Trimmed(req'.username) \notin Names(ROOMS, req'.code))
          => /\ JoinedName(resp', req'.code) = Trimmed(req'.username)
             /\ JoinedName(resp', req'.code) \in Names(ROOMS', req'.code)
       /\ (SameJoinTwice /\ JoinedName(resp, req.code) = Trimmed(req.username))
          => LET first == JoinedName(resp, req.code)
                 second == JoinedName(resp', req.code)
             IN  /\ HasSuffix(second, Trimmed(req.username))
                 /\ first # second
                 /\ {first, second} \subseteq Names(ROOMS', req.code)]_vars

\* A blank name was joined twice: the room holds "Player" and, from the join
\* just served, "Player" with a suffix.
C4_Witness ==
    /\ req.op = "room_join"
    /\ req.username # "Player"
    /\ Trimmed(req.username) = "Player"
    /\ req.code \in DOMAIN ROOMS
    /\ Joined(resp, req.code)
    /\ HasSuffix(JoinedName(resp, req.code), "Player")
    /\ {"Player", JoinedName(resp, req.code)} \subseteq Names(ROOMS, req.code)

----------------------------------------------------------------------------
(* C2, C3 *)

\* Every request of the batch has been served.
ConcDone == \A i \in 1..Len(batch) : batch[i].pc = "done"

\* The batch consists of joins whose usernames are pairwise distinct, also
\* when trimmed.
ConcDistinctJoins ==
    /\ \A i \in 1..Len(batch) : batch[i].op = "room_join"
    /\ \A i, j \in 1..Len(batch) :
           i # j => Trimmed(batch[i].username) # Trimmed(batch[j].username)

\* C2: when N JoinRoom requests with pairwise distinct usernames have run
\* concurrently against one existing room, the room has exactly N players
\* more than before, one per request.
C2_NoJoinIsLost ==
    (ConcDone /\ ConcDistinctJoins) =>
        /\ Len(ROOMS[ConcCode].players)
               = Len(base[ConcCode].players) + Len(batch)
        /\ \A i \in 1..Len(batch) :
               JoinedName(batch[i].resp, ConcCode) \in Names(ROOMS, ConcCode)
        /\ \A i, j \in 1..Len(batch) :
               i # j => JoinedName(batch[i].resp, ConcCode)
                            # JoinedName(batch[j].resp, ConcCode)

\* Request i is a join and request j a submission of a player who had joined
\* before the batch; the two make up the batch, both have been served, and
\* the name the join asked for is not the name of the player who submitted.
ConcJoinAndSubmit(i, j) ==
    /\ Len(batch) = 2
    /\ ConcDone
    /\ batch[i].op = "room_join"
    /\ batch[j].op = "room_submit"
    /\ batch[j].username \in Names(base, ConcCode)
    /\ Joined(batch[i].resp, ConcCode)
    /\ Trimmed(batch[i].username) # batch[j].username

\* C3: when a JoinRoom for player A and a RecordSubmission for an already
\* joined, different player B have run concurrently on one room, in either
\* order, A (under the name the join stored) is registered with empty
\* answers and submitted = false, and B holds the submitted answers with
\* submitted = true.
C3_JoinAndSubmitBothTakeEffect ==
    \A i, j \in 1..Len(batch) :
        ConcJoinAndSubmit(i, j) =>
            LET a == JoinedName(batch[i].resp, ConcCode)
                b == batch[j].username
            IN  /\ {a, b} \subseteq Names(ROOMS, ConcCode)
                /\ PlayerOf(ROOMS, ConcCode, a)
                       = [answers |-> EmptyDict, submitted |-> FALSE]
                /\ PlayerOf(ROOMS, ConcCode, b).submitted = TRUE
                /\ PlayerOf(ROOMS, ConcCode, b).answers
                       = CollectAnswers(batch[j].form)

----------------------------------------------------------------------------
(* C11 *)

\* The last request asked an existing room for the details of a player the
\* room holds.
ResultsForRegisteredPlayer ==
    /\ IsResults
    /\ req.username # None
    /\ req.username[1] \in Names(ROOMS, req.code)

\* C11: PlayerDetail for a registered player returns exactly len(questions)
\* entries in question-index order: entry i is the player's recorded answer
\* for index i when there is one, otherwise a placeholder with an empty
\* selection, isCorrect = false and question i's correct answer; there is no
\* further entry for an answer recorded under an index outside
\* 0..len(questions)-1.
C11_DetailPerQuestion ==
    ResultsForRegisteredPlayer =>
        LET details == resp.context.details
            questions == ROOMS[req.code].questions
            answers == PlayerOf(ROOMS, req.code, req.username[1]).answers
        IN  /\ Len(details) = Len(questions)
            /\ \A j \in 1..Len(questions) :
                   LET key == "q" \o ToString(j - 1)
                   IN  IF key \in DOMAIN answers
                       THEN details[j] = answers[key]
                       ELSE /\ details[j].selected = ""
                            /\ details[j].is_correct = FALSE
                            /\ details[j].correct = questions[j].answer

\* The details of a player who has an answer recorded under an index the
\* room has no question for, next to one under an index it has.
C11_Witness ==
    /\ ResultsForRegisteredPlayer
    /\ Len(resp.context.details) > 0
    /\ LET answers == PlayerOf(ROOMS, req.code, req.username[1]).answers
       IN  /\ "q0" \in DOMAIN answers
           /\ \E key \in DOMAIN answers :
                  QuestionIndex(key, Len(ROOMS[req.code].questions)) = 0

----------------------------------------------------------------------------
(* C12 *)

\* The operations that take a room code.
RoomOps == {"room_join_page", "room_join", "room_submit", "room_results"}

\* The response that tells the caller the room was not found.
IsRoomNotFound(response) ==
    /\ response.kind = "template"
    /\ response.name = "room_join.html"
    /\ DOMAIN response.context = {"error"}
    /\ response.context.error = "Invalid room code"

\* C12: a room operation (GetRoom, JoinRoom, RecordSubmission, Leaderboard,
\* PlayerDetail) called with a code that is not registered fails with
\* RoomNotFound and leaves the whole registry as it was.
C12_UnknownCodeChangesNothing ==
    [][(req'.op \in RoomOps /\ req'.code \notin DOMAIN ROOMS) =>
          /\ IsRoomNotFound(resp')
          /\ ROOMS' = ROOMS]_vars

\* A join was refused for a code that is not registered while another room,
\* with a player, is.
C12_Witness ==
    /\ req.op = "room_join"
    /\ req.code \notin DOMAIN ROOMS
    /\ IsRoomNotFound(resp)
    /\ \E c \in DOMAIN ROOMS : Len(ROOMS[c].players) > 0

----------------------------------------------------------------------------
(* C13 *)

\* The response that tells the caller the player was not found: the way
\* back to the join page of the room.
IsPlayerNotFound(response, code) ==
    /\ response.kind = "redirect"
    /\ response.url = "/room/" \o code

\* The form names no player, or one that has not joined the room.
NotJoined(rooms, code, form) ==
    \/ "username" \notin DOMAIN form
    \/ form.username \notin Names(rooms, code)

\* C13: RecordSubmission on an existing room with a username that has not
\* joined that room fails with PlayerNotFound and changes nothing: no player
\* is added, and no player's answers or submitted flag is modified.
C13_UnknownPlayerChangesNothing ==
    [][(/\ req'.op = "room_submit"
        /\ req'.code \in DOMAIN ROOMS
        /\ NotJoined(ROOMS, req'.code, req'.form)) =>
          /\ IsPlayerNotFound(resp', req'.code)
          /\ ROOMS' = ROOMS]_vars

\* A submission with an answer was refused for a named player who has not
\* joined the room, while another player has.
C13_Witness ==
    /\ req.op = "room_submit"
    /\ req.code \in DOMAIN ROOMS
    /\ "username" \in DOMAIN req.form
    /\ "q0" \in DOMAIN req.form
    /\ req.form.username \notin Names(ROOMS, req.code)
    /\ Names(ROOMS, req.code) # {}
    /\ IsPlayerNotFound(resp, req.code)

----------------------------------------------------------------------------
(* C14 *)

\* The batch was two submissions of one player who had joined before, both
\* have been served, and request j was served last.
ConcTwoSubmissions(i, j) ==
    /\ Len(batch) = 2
    /\ i # j
    /\ ConcDone
    /\ batch[i].op = "room_submit"
    /\ batch[j].op = "room_submit"
    /\ batch[i].username = batch[j].username
    /\ batch[j].username \in Names(base, ConcCode)
    /\ req.op = "room_submit"
    /\ req.form = batch[j].form

\* The q* fields of a form that carry a value.
AnsweredKeys(form) == {k \in DOMAIN form : startswith(k, "q") /\ form[k] # ""}

\* C14: RecordSubmission is last-write-wins: after two submissions by the
\* same player the player's answers are exactly those of the second one,
\* nothing of the first is kept or merged, submitted is true, and the
\* registry is the one the second submission alone would have left (so the
\* same answers submitted twice leave the state of submitting them once).
C14_LastSubmissionWins ==
    \A i, j \in 1..Len(batch) :
        ConcTwoSubmissions(i, j) =>
            LET player == PlayerOf(ROOMS, ConcCode, batch[j].username)
            IN  /\ player.submitted = TRUE
                /\ DOMAIN player.answers = AnsweredKeys(batch[j].form)
                /\ \A k \in DOMAIN player.answers :
                       player.answers[k] = ParseAnswer(batch[j].form[k])
                /\ ROOMS = room_submit(base, ConcCode, batch[j].form).rooms

\* The first submission answered q0 and q1, the second, served last, q0
\* only with another value.
C14_Witness ==
    /\ ConcTwoSubmissions(1, 2)
    /\ AnsweredKeys(batch[1].form) = {"q0", "q1"}
    /\ AnsweredKeys(batch[2].form) = {"q0"}
    /\ batch[1].form["q0"] # batch[2].form["q0"]
    /\ batch[1].resp.kind = "redirect"

----------------------------------------------------------------------------
(* C15, C16 *)

\* C15: the question sequence and the category stored under a registered
\* room code stay the same in every later state, whatever operation runs.
C15_QuestionsNeverChange ==
    [][\A c \in DOMAIN ROOMS :
          /\ c \in DOMAIN ROOMS'
          /\ ROOMS'[c].questions = ROOMS[c].questions
          /\ ROOMS'[c].domain = ROOMS[c].domain]_vars

\* C16: rooms and players are never deleted: a registered code stays
\* registered, and a username registered in a room stays registered in it.
C16_NothingIsDeleted ==
    [][\A c \in DOMAIN ROOMS :
          /\ c \in DOMAIN ROOMS'
          /\ Names(ROOMS, c) \subseteq Names(ROOMS', c)]_vars

----------------------------------------------------------------------------
(* C17 *)

\* The value of a field is a (question, correct, selected) entry.
IsEntry(value) == Len(split(value, "||")) = 3

EntryCorrect(value) == split(value, "||")[2]

EntrySelected(value) == split(value, "||")[3]

\* The last request was a single-player submission that states the total n
\* and whose q* fields with a value are all entries.
SingleSubmission(n) ==
    /\ req.op = "single_player_results"
    /\ "total_questions" \in DOMAIN req.form
    /\ req.form.total_questions = ToString(n)
    /\ \A k \in AnsweredKeys(req.form) : IsEntry(req.form[k])

\* C17: single-player scoring: for any submitted list of (question, correct,
\* selected) entries and any stated total, the reported score is the number
\* of submitted entries whose selected value equals their correct value, and
\* the reported total is the stated total, however many entries were
\* submitted; with no entry submitted the score is 0.
C17_SinglePlayerScore ==
    \A n \in 0..10 :
        SingleSubmission(n) =>
            LET entries == AnsweredKeys(req.form)
                equal == {k \in entries :
                             EntrySelected(req.form[k]) = EntryCorrect(req.form[k])}
            IN  /\ resp.kind = "template"
                /\ resp.name = "single_player_results.html"
                /\ resp.context.total = n
                /\ resp.context.score = Cardinality(equal)
                /\ Len(resp.context.results) = Cardinality(entries)
                /\ entries = {} => resp.context.score = 0

\* Three entries were submitted for a stated total of ten: one selects the
\* correct value, one another value and one none.
C17_Witness ==
    /\ SingleSubmission(10)
    /\ Cardinality(AnsweredKeys(req.form)) = 3
    /\ \E k \in AnsweredKeys(req.form) : EntrySelected(req.form[k]) = ""
    /\ resp.context.score = 1
    /\ resp.context.total = 10

----------------------------------------------------------------------------
(* C18 *)

\* C18: the score Leaderboard reports for a player is between 0 and the
\* number of questions of the player's room, whatever answer keys the
\* player's submissions contained.
C18_ScoreWithinQuestions ==
    IsResults =>
        \A i \in 1..Len(resp.context.players) :
            /\ resp.context.players[i].score >= 0
            /\ resp.context.players[i].score <= Len(ROOMS[req.code].questions)

----------------------------------------------------------------------------
(* C19 *)

\* C19: JoinRoom and RecordSubmission on one room leave every other
\* registered room, with its category, questions, players, answers and
\* submitted flags, as it was, and register no room; Leaderboard and
\* PlayerDetail change no room at all.
C19_OtherRoomsUntouched ==
    [][/\ req'.op \in {"room_join", "room_submit"} =>
             /\ DOMAIN ROOMS' = DOMAIN ROOMS
             /\ \A c \in DOMAIN ROOMS \ {req'.code} : ROOMS'[c] = ROOMS[c]
       /\ req'.op = "room_results" => ROOMS' = ROOMS]_vars

\* A submission with answers was recorded in one room while another room
\* holds a player of the same name who has not submitted.
C19_Witness ==
    /\ req.op = "room_submit"
    /\ req.code \in DOMAIN ROOMS
    /\ "username" \in DOMAIN req.form
    /\ req.form.username \in Names(ROOMS, req.code)
    /\ PlayerOf(ROOMS, req.code, req.form.username).submitted
    /\ PlayerOf(ROOMS, req.code, req.form.username).answers # EmptyDict
    /\ \E c \in DOMAIN ROOMS \ {req.code} :
           /\ req.form.username \in Names(ROOMS, c)
           /\ PlayerOf(ROOMS, c, req.form.username) = NewPlayer

====
